---- MODULE Spec2Model ----
(***************************************************************************)
(* A model of airlink-proxy: the Reading store (class Database of          *)
(* monitor.py), the ingestion loop (Service.do_loop) and its sensor        *)
(* client (Service.collect_data).                                          *)
(*                                                                         *)
(* Python values are tagged records [t |-> type, v |-> value].  A float    *)
(* is held as an integer number of Unit-ths (Unit = 10^7), so that the     *)
(* six-decimal rendering of '%f' is a conversion that can lose digits.     *)
(***************************************************************************)
EXTENDS Integers, Sequences, FiniteSets, TLC

VARIABLES
    store,      \* the rows of table Reading in the database file
    last,       \* the last call of a Database method and its outcome
    now,        \* wall clock, whole seconds (time.time())
    pc,         \* do_loop: position in the loop body
    event,      \* do_loop: local variable event
    reading,    \* do_loop: local variable reading
    session,    \* do_loop: local variable session
    archive_ts, \* do_loop: local variable archive_ts
    cyc         \* do_loop: what happened in the cycle in progress

vars == <<store, last, now, pc, event, reading, session, archive_ts, cyc>>

dbvars   == <<store, last>>
loopvars == <<now, pc, event, reading, session, archive_ts, cyc>>

(***************************************************************************)
(* Python values                                                           *)
(***************************************************************************)
Unit == 10000000     \* one float unit is 10^-7

None == [t |-> "null", v |-> 0]
I(n) == [t |-> "int", v |-> n]
F(u) == [t |-> "float", v |-> u]
S(s) == [t |-> "str", v |-> s]

IsNone(x) == x.t = "null"

\* Python ==  on two values: an int equals the float of the same magnitude.
PyEq(a, b) ==
    IF a.t = b.t THEN a.v = b.v
    ELSE IF a.t = "int" /\ b.t = "float" THEN b.v % Unit = 0 /\ b.v \div Unit = a.v
    ELSE IF a.t = "float" /\ b.t = "int" THEN a.v % Unit = 0 /\ a.v \div Unit = b.v
    ELSE FALSE

\* Texts the model uses and what SQLite makes of them.
QuoteTexts   == {"x\"y"}                    \* contain a double quote
NumericTexts == {"0012"}                    \* well-formed integer literals
NumericValue(s) == CASE s = "0012" -> 12

(***************************************************************************)
(* class RecordType, class Reading and the columns of table Reading        *)
(***************************************************************************)
CURRENT == 0
ARCHIVE == 1

StringFields == {"did", "name"}
IntFields == {"ts", "lsid", "data_structure_type", "pm_1_last", "pm_2p5_last",
              "pm_10_last", "last_report_time", "pct_pm_data_last_1_hour",
              "pct_pm_data_last_3_hours", "pct_pm_data_nowcast",
              "pct_pm_data_last_24_hours"}
FloatFields == {"temp", "hum", "dew_point", "wet_bulb", "heat_index", "pm_1",
                "pm_2p5", "pm_2p5_last_1_hour", "pm_2p5_last_3_hours",
                "pm_2p5_last_24_hours", "pm_2p5_nowcast", "pm_10",
                "pm_10_last_1_hour", "pm_10_last_3_hours",
                "pm_10_last_24_hours", "pm_10_nowcast"}
ReadingFields == StringFields \cup IntFields \cup FloatFields

\* Python == on two Readings (dataclass equality: field by field).
ReadingEq(r1, r2) == \A f \in ReadingFields : PyEq(r1[f], r2[f])

(***************************************************************************)
(* String formatting:  '%d' % x  and  '%f' % x                             *)
(***************************************************************************)
\* '%d': an int as it is, a float truncated towards zero.
FormatD(x) ==
    IF x.t = "float"
    THEN IF x.v >= 0 THEN x.v \div Unit ELSE -((-x.v) \div Unit)
    ELSE x.v

\* '%f': six digits after the point, rounded to nearest.
FormatF(x) ==
    LET u == IF x.t = "int" THEN x.v * Unit ELSE x.v
    IN  IF u >= 0 THEN ((u + 5) \div 10) * 10 ELSE -(((-u + 5) \div 10) * 10)

\* Database.add_string: the text, to be put between double quotes.
add_string(str_val) == S(str_val.v)

\* Database.add_int
add_int(int_val) == I(FormatD(int_val))

\* Database.add_float
add_float(float_val) == F(FormatF(float_val))

\* Database.build_insert_statement: the columns the INSERT names and the
\* literal it gives each: record_type and timestamp, then every field of the
\* Reading that is not None.
build_insert_statement(record_type, timestamp, r) ==
    [fields |-> {"record_type", "timestamp"} \cup {f \in ReadingFields : ~IsNone(r[f])},
     values |-> [f \in {"record_type", "timestamp"} \cup ReadingFields |->
                    IF f = "record_type" THEN I(FormatD(I(record_type)))
                    ELSE IF f = "timestamp" THEN I(FormatD(timestamp))
                    ELSE IF f \in StringFields THEN add_string(r[f])
                    ELSE IF f \in IntFields THEN add_int(r[f])
                    ELSE add_float(r[f])]]

(***************************************************************************)
(* SQLite: table Reading as created by Database.create                     *)
(***************************************************************************)
\* The value a column stores for a literal, by the affinity of its declared
\* type: INTEGER and FLOAT keep the number, STRING has NUMERIC affinity and
\* turns a text that is a well-formed number into that number.
ColumnValue(field, lit) ==
    IF field \in StringFields /\ lit.t = "str" /\ lit.v \in NumericTexts
    THEN I(NumericValue(lit.v))
    ELSE lit

\* A text literal that holds a double quote ends early: a syntax error.
WellFormed(stmt) ==
    \A f \in stmt.fields : stmt.values[f].t = "str" => stmt.values[f].v \notin QuoteTexts

\* The row an INSERT statement makes; a column it does not name is NULL.
RowOf(stmt) ==
    [record_type |-> stmt.values["record_type"].v,
     timestamp   |-> stmt.values["timestamp"].v,
     cols        |-> [f \in ReadingFields |->
                        IF f \in stmt.fields THEN ColumnValue(f, stmt.values[f])
                        ELSE None]]

\* A table without the primary key: no insert is ever refused.
KeyTaken_nokey(rows, row) == FALSE

\* PRIMARY KEY (record_type, timestamp)
KeyTaken(rows, row) ==
    \E x \in rows : x.record_type = row.record_type /\ x.timestamp = row.timestamp

\* The DELETE left out.
DeleteCurrent_skipped(rows) == rows

\* The DELETE without its WHERE clause.
DeleteCurrent_all(rows) == {}

\* DELETE FROM Reading where record_type = CURRENT
DeleteCurrent(rows) == {x \in rows : x.record_type # CURRENT}

\* Database.create (the schema it leaves): an empty table.
EmptyStore == {}

(***************************************************************************)
(* Database.save_reading and its two callers                               *)
(***************************************************************************)
\* Each statement committed on its own: a failed INSERT leaves the DELETE done.
save_reading_no_rollback(rows, record_type, timestamp, r, busy) ==
    IF timestamp.t \notin {"int", "float"}
    THEN [ok |-> FALSE, rows |-> rows]
    ELSE
    LET insert_reading_sql == build_insert_statement(record_type, timestamp, r)
        deleted == IF record_type = CURRENT THEN DeleteCurrent(rows) ELSE rows
        row == RowOf(insert_reading_sql)
    IN  IF busy THEN [ok |-> FALSE, rows |-> rows]
        ELSE IF ~WellFormed(insert_reading_sql) \/ KeyTaken(deleted, row)
        THEN [ok |-> FALSE, rows |-> deleted]
        ELSE [ok |-> TRUE, rows |-> deleted \cup {row}]

\* One transaction: the DELETE of the Current row for a Current record, then
\* the INSERT.  busy: the database stays locked for the 5 second timeout.
\* An exception leaves the 'with' block and the transaction is rolled back.
save_reading(rows, record_type, timestamp, r, busy) ==
    IF timestamp.t \notin {"int", "float"}
    THEN [ok |-> FALSE, rows |-> rows]            \* '%d' raises TypeError
    ELSE
    LET insert_reading_sql == build_insert_statement(record_type, timestamp, r)
        deleted == IF record_type = CURRENT THEN DeleteCurrent(rows) ELSE rows
        row == RowOf(insert_reading_sql)
    IN  IF busy \/ ~WellFormed(insert_reading_sql) \/ KeyTaken(deleted, row)
        THEN [ok |-> FALSE, rows |-> rows]
        ELSE [ok |-> TRUE, rows |-> deleted \cup {row}]

save_current_reading(rows, r, busy) ==
    save_reading(rows, CURRENT, r.ts, r, busy)

save_archive_reading(rows, timestamp, r, busy) ==
    save_reading(rows, ARCHIVE, I(timestamp), r, busy)

(***************************************************************************)
(* Database.fetch_readings and its callers                                 *)
(***************************************************************************)
\* Database.create_reading_from_row: the 29 selected columns, by position.
create_reading_from_row(row) == row.cols

\* ORDER BY timestamp, then LIMIT: a negative LIMIT is no limit in SQLite.
RECURSIVE OrderByTimestamp(_)
OrderByTimestamp(rows) ==
    IF rows = {} THEN <<>>
    ELSE LET first == CHOOSE x \in rows : \A y \in rows : x.timestamp <= y.timestamp
         IN  <<first>> \o OrderByTimestamp(rows \ {first})

\* The LIMIT clause left out.
Limit_dropped(seq, limit) == seq

Limit(seq, limit) ==
    IF IsNone(limit) \/ limit.v < 0 \/ limit.v >= Len(seq) THEN seq
    ELSE SubSeq(seq, 1, limit.v)

fetch_readings(rows, record_type, since_ts, max_ts, limit) ==
    LET selected == {x \in rows : /\ x.record_type = record_type
                                  /\ x.timestamp > since_ts
                                  /\ (~IsNone(max_ts) => x.timestamp <= max_ts.v)}
        result == Limit(OrderByTimestamp(selected), limit)
    IN  [i \in 1..Len(result) |-> create_reading_from_row(result[i])]

\* The Current row fetched from the start of time.
fetch_current_readings_from_start(rows) ==
    IF \E x \in rows : x.record_type = CURRENT
    THEN fetch_readings(rows, CURRENT,
                        (CHOOSE x \in rows : x.record_type = CURRENT).timestamp - 1,
                        None, None)
    ELSE <<>>

fetch_current_readings(rows) == fetch_readings(rows, CURRENT, 0, None, None)

fetch_archive_readings(rows, since_ts, max_ts, limit) ==
    fetch_readings(rows, ARCHIVE, since_ts, max_ts, limit)

(***************************************************************************)
(* Readings                                                                *)
(***************************************************************************)
\* The sample reading in the comment above class Reading, at a small ts.
SampleReading ==
    [did |-> S("001D0A100214"), name |-> S("paloaltoweather.com"), ts |-> I(100),
     lsid |-> I(347825), data_structure_type |-> I(6),
     temp |-> F(741000000), hum |-> F(628000000), dew_point |-> F(606000000),
     wet_bulb |-> F(642000000), heat_index |-> F(747000000),
     pm_1_last |-> I(11), pm_2p5_last |-> I(14), pm_10_last |-> I(17),
     pm_1 |-> F(116800000),
     pm_2p5 |-> F(155500000), pm_2p5_last_1_hour |-> F(193500000),
     pm_2p5_last_3_hours |-> F(205400000), pm_2p5_last_24_hours |-> F(185900000),
     pm_2p5_nowcast |-> F(212500000),
     pm_10 |-> F(172800000), pm_10_last_1_hour |-> F(233000000),
     pm_10_last_3_hours |-> F(246400000), pm_10_last_24_hours |-> F(227100000),
     pm_10_nowcast |-> F(256000000),
     last_report_time |-> I(100),
     pct_pm_data_last_1_hour |-> I(100), pct_pm_data_last_3_hours |-> I(100),
     pct_pm_data_nowcast |-> I(100), pct_pm_data_last_24_hours |-> I(100)]

\* The fields the wire format allows to be null.
NullableFields ==
    {"lsid", "pm_1_last", "pm_2p5_last", "pm_10_last", "last_report_time",
     "pct_pm_data_last_1_hour", "pct_pm_data_last_3_hours", "pct_pm_data_nowcast",
     "pct_pm_data_last_24_hours", "pm_1", "pm_2p5", "pm_2p5_last_1_hour",
     "pm_2p5_last_3_hours", "pm_2p5_last_24_hours", "pm_2p5_nowcast", "pm_10",
     "pm_10_last_1_hour", "pm_10_last_3_hours", "pm_10_last_24_hours",
     "pm_10_nowcast"}

\* A reading just after a restart of the sensor: every nullable field is null.
SparseReading ==
    [f \in ReadingFields |->
        IF f \in NullableFields THEN None
        ELSE IF f = "ts" THEN I(200) ELSE SampleReading[f]]

\* A reading whose own timestamp is 0.
EpochReading == [SampleReading EXCEPT !.ts = I(0)]

\* A concentration with seven digits after the point: 1.2345678.
PreciseReading == [SampleReading EXCEPT !.ts = I(150), !.pm_2p5 = F(12345678)]

\* A station name that holds a double quote.
QuotedReading == [SampleReading EXCEPT !.ts = I(250), !.name = S("x\"y")]

\* A device id made of digits only.
DigitsReading == [SampleReading EXCEPT !.ts = I(50), !.did = S("0012")]

\* A reading whose own timestamp is before 1970.
PastReading == [SampleReading EXCEPT !.ts = I(0 - 60)]

DbReadings == {SampleReading, SparseReading, PreciseReading, QuotedReading}

\* The readings save_current_reading is called on: those, and the two whose
\* timestamp is not positive.
CurrentReadings == DbReadings \cup {EpochReading, PastReading}

\* Service.__init__: the cadence of the loop.
pollfreq_secs   == 5
pollfreq_offset == 5
arcint_secs     == 60

\* Bucket timestamps and query arguments the callers use.
MaxBuckets == 3
BucketTimes == {k * arcint_secs : k \in 1..MaxBuckets}
MaxLimit == 1
Limits == {None} \cup {I(n) : n \in (-1)..MaxLimit}
SinceTimes == {0, arcint_secs}
MaxTimes == {None, I(2 * arcint_secs)}

(***************************************************************************)
(* The Database methods, called in any order on one database file          *)
(***************************************************************************)
NoCall == [op |-> "create", r |-> None, timestamp |-> 0, busy |-> FALSE,
           since_ts |-> 0, max_ts |-> None, limit |-> None,
           ok |-> TRUE, returned |-> <<>>]

Rows(record_type) == {x \in store : x.record_type = record_type}

DbSaveCurrent ==
    \E r \in CurrentReadings, busy \in BOOLEAN :
        LET res == save_current_reading(store, r, busy)
        IN  /\ store' = res.rows
            /\ last' = [NoCall EXCEPT !.op = "save_current_reading", !.r = r,
                                      !.busy = busy, !.ok = res.ok]
            /\ UNCHANGED loopvars

DbSaveArchive ==
    \E r \in DbReadings, t \in BucketTimes, busy \in BOOLEAN :
        LET res == save_archive_reading(store, t, r, busy)
        IN  /\ store' = res.rows
            /\ last' = [NoCall EXCEPT !.op = "save_archive_reading", !.r = r,
                                      !.timestamp = t, !.busy = busy,
                                      !.ok = res.ok]
            /\ UNCHANGED loopvars

DbFetchCurrent ==
    /\ last' = [NoCall EXCEPT !.op = "fetch_current_readings",
                              !.returned = fetch_current_readings(store)]
    /\ UNCHANGED <<store, loopvars>>

DbFetchArchive ==
    \E since_ts \in SinceTimes, max_ts \in MaxTimes, limit \in Limits :
        /\ last' = [NoCall EXCEPT !.op = "fetch_archive_readings",
                                  !.since_ts = since_ts, !.max_ts = max_ts,
                                  !.limit = limit,
                                  !.returned = fetch_archive_readings(
                                                  store, since_ts, max_ts, limit)]
        /\ UNCHANGED <<store, loopvars>>

\* The ingestion loop is not running.
LoopIdle ==
    /\ now = 0 /\ pc = "idle" /\ event = "POLL" /\ reading = None
    /\ session = "none" /\ archive_ts = 0 /\ cyc = None

InitDb == store = EmptyStore /\ last = NoCall /\ LoopIdle

NextDb == DbSaveCurrent \/ DbSaveArchive \/ DbFetchCurrent \/ DbFetchArchive

SpecDb == InitDb /\ [][NextDb]_vars

(***************************************************************************)
(* Properties of the store                                                 *)
(***************************************************************************)
Min(a, b) == IF a <= b THEN a ELSE b

\* C1: in every reachable state of the store, after any sequence of
\* save_current_reading and save_archive_reading calls, successful or failed,
\* the number of rows of kind Current is 0 or 1.
C1_AtMostOneCurrent == Cardinality(Rows(CURRENT)) <= 1

\* A Current row has replaced an earlier one, next to Archive rows, and the
\* last call was a save_current_reading that failed.
C1_Witness ==
    /\ last.op = "save_current_reading" /\ ~last.ok
    /\ Cardinality(Rows(CURRENT)) = 1
    /\ \E x \in Rows(CURRENT) : x.timestamp = SparseReading.ts.v
    /\ Rows(ARCHIVE) # {}

\* C2 (as claimed): save_current_reading(R1), then save_current_reading(R2),
\* then fetch_current_readings returns exactly R2, and exactly one row of kind
\* Current exists, for every pair of Readings.
C2_SaveSaveFetch ==
    [][(/\ last.op = "save_current_reading" /\ last.ok
        /\ last'.op = "save_current_reading" /\ ~last'.busy)
       => LET out == fetch_current_readings(store')
          IN  /\ Len(out) = 1
              /\ ReadingEq(out[1], last'.r)
              /\ Cardinality({x \in store' : x.record_type = CURRENT}) = 1]_vars

\* C3: an Archive row, once written, is in every later state of the store,
\* unchanged.
C3_ArchiveAppendOnly ==
    [][\A x \in store : x.record_type = ARCHIVE => x \in store']_vars

\* Archive rows in two buckets have outlived a later save_current_reading.
C3_Witness ==
    /\ last.op = "save_current_reading" /\ last.ok
    /\ Cardinality(Rows(ARCHIVE)) >= 2

\* C4: save_archive_reading(t, R') fails when an Archive row with bucket
\* timestamp t exists, and leaves every row of the store as it was.
C4_DuplicateArchiveFails ==
    [][(/\ last'.op = "save_archive_reading"
        /\ \E x \in store : x.record_type = ARCHIVE /\ x.timestamp = last'.timestamp)
       => (~last'.ok /\ store' = store)]_vars

\* A save_archive_reading of another Reading was refused for its bucket alone,
\* with a Current row and a second Archive row in the store.
C4_Witness ==
    /\ last.op = "save_archive_reading" /\ ~last.ok /\ ~last.busy
    /\ last.r = SparseReading
    /\ \E x \in Rows(ARCHIVE) :
          x.timestamp = last.timestamp /\ x.cols.ts = SampleReading.ts
    /\ Cardinality(Rows(ARCHIVE)) >= 2
    /\ Rows(CURRENT) # {}

\* C5 (as claimed): on an empty store, save_archive_reading(t, R) with t > 0
\* followed by fetch_archive_readings(0) yields exactly one record, equal to R
\* field for field, for every Reading R.
C5_ArchiveRoundTrip ==
    [][(/\ store = EmptyStore
        /\ last'.op = "save_archive_reading" /\ ~last'.busy /\ last'.timestamp > 0)
       => LET out == fetch_archive_readings(store', 0, None, None)
          IN  Len(out) = 1 /\ ReadingEq(out[1], last'.r)]_vars

\* The Archive rows a query asks for, and the place of one among them.
Matching(since_ts, max_ts) ==
    {x \in Rows(ARCHIVE) : /\ x.timestamp > since_ts
                           /\ (~IsNone(max_ts) => x.timestamp <= max_ts.v)}

Rank(x, rows) == 1 + Cardinality({y \in rows : y.timestamp < x.timestamp})

\* returned is the first count rows of rows, in ascending order of timestamp.
IsFirstRows(returned, rows, count) ==
    /\ Len(returned) = count
    /\ \A x \in rows : Rank(x, rows) <= count => returned[Rank(x, rows)] = x.cols

B(b)    == [t |-> "bool", v |-> IF b THEN 1 ELSE 0]
Dict(d) == [t |-> "dict", v |-> d]
List(l) == [t |-> "list", v |-> l]

HasKey(d, k) == d.t = "dict" /\ k \in DOMAIN d.v

\* isinstance(x, t): a bool is an instance of int.
IsInstance(x, t) == IF t = "int" THEN x.t \in {"int", "bool"} ELSE x.t = t

\* Service.is_type: False also when the key is missing or j is no dict.
is_type(j, t, name, none_ok) ==
    IF ~HasKey(j, name) THEN FALSE
    ELSE IF IsNone(j.v[name]) /\ none_ok THEN TRUE
    ELSE IsInstance(j.v[name], t)

NullableInts == <<"pm_1_last", "pm_2p5_last", "pm_10_last", "last_report_time",
                  "pct_pm_data_last_1_hour", "pct_pm_data_last_3_hours",
                  "pct_pm_data_nowcast", "pct_pm_data_last_24_hours">>
RequiredFloats == <<"temp", "hum", "dew_point", "wet_bulb", "heat_index">>
NullableFloats == <<"pm_1", "pm_2p5", "pm_2p5_last_1_hour", "pm_2p5_last_3_hours",
                    "pm_2p5_last_24_hours", "pm_2p5_nowcast", "pm_10",
                    "pm_10_last_1_hour", "pm_10_last_3_hours",
                    "pm_10_last_24_hours", "pm_10_nowcast">>

AllOfType(d, t, names, none_ok) ==
    \A i \in 1..Len(names) : is_type(d, t, names[i], none_ok)

\* Service.is_sane.  raised: the KeyError of j['error'] on a payload without
\* that key; sane: the first element of the tuple it returns.
is_sane(j) ==
    IF ~HasKey(j, "error") THEN [raised |-> TRUE, sane |-> FALSE]
    ELSE [raised |-> FALSE,
          sane |->
            /\ IsNone(j.v["error"])
            /\ is_type(j, "dict", "data", FALSE)
            /\ is_type(j.v["data"], "str", "name", FALSE)
            /\ is_type(j.v["data"], "int", "ts", FALSE)
            /\ is_type(j.v["data"], "list", "conditions", FALSE)
            /\ Len(j.v["data"].v["conditions"].v) # 0
            /\ LET c == j.v["data"].v["conditions"].v[1]
               IN  /\ is_type(c, "int", "data_structure_type", FALSE)
                   /\ PyEq(c.v["data_structure_type"], I(6))
                   /\ AllOfType(c, "int", NullableInts, TRUE)
                   /\ is_type(c, "int", "lsid", TRUE)
                   /\ AllOfType(c, "float", RequiredFloats, FALSE)
                   /\ AllOfType(c, "float", NullableFloats, TRUE)]

\* Service.convert_data_structure_type_5_to_6 on conditions[0]: the renames
\* in order, given up at the first legacy key that is missing.
LegacyNames == <<"pm_10p0", "pm_10p0_last_1_hour", "pm_10p0_last_3_hours",
                 "pm_10p0_last_24_hours", "pm_10p0_nowcast">>
CanonicalNames == <<"pm_10", "pm_10_last_1_hour", "pm_10_last_3_hours",
                    "pm_10_last_24_hours", "pm_10_nowcast">>

\* d[k] = x, as on a Python dict: the key is added when it is new.
SetKey(d, k, x) == [n \in DOMAIN d \cup {k} |-> IF n = k THEN x ELSE d[n]]

\* The two statements of each rename in the other order: the legacy key is
\* set to None before it is copied.
RECURSIVE convert_from_nulled(_, _)
convert_from_nulled(c, i) ==
    IF i > Len(LegacyNames) THEN SetKey(c, "data_structure_type", I(6))
    ELSE IF LegacyNames[i] \notin DOMAIN c THEN c
    ELSE convert_from_nulled(SetKey(SetKey(c, LegacyNames[i], None),
                                    CanonicalNames[i], None), i + 1)

\* The version tag set to 6 also when a legacy key is missing.
RECURSIVE convert_from_tagging(_, _)
convert_from_tagging(c, i) ==
    IF i > Len(LegacyNames) THEN SetKey(c, "data_structure_type", I(6))
    ELSE IF LegacyNames[i] \notin DOMAIN c THEN SetKey(c, "data_structure_type", I(6))
    ELSE convert_from_tagging(SetKey(SetKey(c, CanonicalNames[i], c[LegacyNames[i]]),
                                     LegacyNames[i], None), i + 1)

RECURSIVE convert_from(_, _)
convert_from(c, i) ==
    IF i > Len(LegacyNames) THEN SetKey(c, "data_structure_type", I(6))
    ELSE IF LegacyNames[i] \notin DOMAIN c THEN c
    ELSE convert_from(SetKey(SetKey(c, CanonicalNames[i], c[LegacyNames[i]]),
                             LegacyNames[i], None), i + 1)

convert_data_structure_type_5_to_6(j) ==
    LET data == j.v["data"]
        c    == data.v["conditions"].v[1]
    IN  Dict(SetKey(j.v, "data",
             Dict(SetKey(data.v, "conditions",
                  List([data.v["conditions"].v EXCEPT
                           ![1] = Dict(convert_from(c.v, 1))])))))

\* Service.populate_record: a field the payload lacks is None.
populate_record(j) ==
    LET data == j.v["data"].v
        c    == data["conditions"].v[1].v
    IN  [f \in ReadingFields |->
            IF f \in {"did", "name", "ts"}
            THEN IF f \in DOMAIN data THEN data[f] ELSE None
            ELSE IF f \in DOMAIN c THEN c[f] ELSE None]

(***************************************************************************)
(* Service.collect_data                                                    *)
(***************************************************************************)
\* The loop giving up after the second ConnectionError.
RECURSIVE get_loop_two_tries(_, _)
get_loop_two_tries(tries, i) ==
    IF tries[i + 1] = "ok"
    THEN [raised |-> FALSE, attempts |-> i + 1, pauses |-> i]
    ELSE IF tries[i + 1] = "ConnectionError" /\ i < 1
    THEN get_loop_two_tries(tries, i + 1)
    ELSE [raised |-> TRUE, attempts |-> i + 1, pauses |-> i]

\* The GET loop.  tries: what each attempt meets, "ok", "ConnectionError" or
\* "other" (a timeout, a status that raise_for_status refuses).  A
\* ConnectionError on attempt 1 or 2 is followed by sleep(1) and a new try.
RECURSIVE get_loop(_, _)
get_loop(tries, i) ==
    IF tries[i + 1] = "ok"
    THEN [raised |-> FALSE, attempts |-> i + 1, pauses |-> i]
    ELSE IF tries[i + 1] = "ConnectionError" /\ i < 2
    THEN get_loop(tries, i + 1)
    ELSE [raised |-> TRUE, attempts |-> i + 1, pauses |-> i]

NotJson == [t |-> "notjson", v |-> 0]

\* j['data']['conditions'][0]['data_structure_type'] can be read.
HasStructureType(j) ==
    /\ HasKey(j, "data")
    /\ HasKey(j.v["data"], "conditions")
    /\ j.v["data"].v["conditions"].t = "list"
    /\ Len(j.v["data"].v["conditions"].v) >= 1
    /\ HasKey(j.v["data"].v["conditions"].v[1], "data_structure_type")

Condition0(j) == j.v["data"].v["conditions"].v[1].v

max_age_secs == 60

\* The staleness check with `j = None` in the stale branch alone.
check_age_boot_kept(j, t) ==
    LET time_of_reading == Condition0(j)["last_report_time"]
    IN  IF t - time_of_reading.v > max_age_secs /\ ~IsNone(Condition0(j)["pm_1"])
        THEN None
        ELSE j

\* The staleness check with >= : a reading of exactly 60 seconds is stale.
check_age_sixty_stale(j, t) ==
    LET time_of_reading == Condition0(j)["last_report_time"]
    IN  IF t - time_of_reading.v >= max_age_secs THEN None ELSE j

\* age_of_reading = time.time() - time_of_reading; if age_of_reading > 60:
\* one of two log lines, by pm_1, and then j = None in either case.
check_age(j, t) ==
    LET time_of_reading == Condition0(j)["last_report_time"]
    IN  IF t - time_of_reading.v > max_age_secs THEN None ELSE j

\* The error branch: error['code'], error['message'] and the '%d' of the log
\* line raise unless error is a dict with a numeric code and a message.
ErrorIsLoggable(error) ==
    /\ HasKey(error, "code") /\ HasKey(error, "message")
    /\ error.v["code"].t \in {"int", "float", "bool"}

\* The second try block, up to its except clause.  exc: an exception left the
\* block; j: the local j when the block is left another way (None or the
\* sane, fresh payload).  t is time.time() when the age is computed.
parse_response(body, t) ==
    IF body = NotJson THEN [exc |-> TRUE, j |-> None]            \* r.json() raises
    ELSE IF body.t # "dict" THEN [exc |-> TRUE, j |-> None]      \* TypeError
    ELSE IF HasKey(body, "error") /\ ~IsNone(body.v["error"])
    THEN [exc |-> ~ErrorIsLoggable(body.v["error"]), j |-> None] \* return None
    ELSE IF ~HasStructureType(body)
    THEN [exc |-> TRUE, j |-> None]               \* KeyError, TypeError, IndexError
    ELSE
    LET j == IF PyEq(Condition0(body)["data_structure_type"], I(5))
             THEN convert_data_structure_type_5_to_6(body)
             ELSE body
        sanity == is_sane(j)
    IN  IF sanity.raised THEN [exc |-> TRUE, j |-> None]         \* KeyError
        ELSE IF ~sanity.sane THEN [exc |-> FALSE, j |-> None]    \* return None
        ELSE IF IsNone(Condition0(j)["last_report_time"])
        THEN [exc |-> TRUE, j |-> None]                          \* TypeError
        ELSE [exc |-> FALSE, j |-> check_age(j, t)]

\* The second try block without its except clause.
read_response_uncaught(body, t) ==
    LET block == parse_response(body, t)
    IN  [raised |-> block.exc,
         value  |-> IF block.exc \/ block.j = None THEN None
                    ELSE populate_record(block.j)]

\* The second try block with `except Exception: j = None`, and the return:
\* None, or the Reading populate_record makes of j.
read_response(body, t) ==
    LET block == parse_response(body, t)
    IN  [raised |-> FALSE,
         value  |-> IF block.exc \/ block.j = None THEN None
                    ELSE populate_record(block.j)]

\* collect_data with the GET loop inside the try block: its exception is
\* turned into None as well.
collect_data_swallowing(tries, body, t) ==
    LET get == get_loop(tries, 0)
    IN  IF get.raised THEN [raised |-> FALSE, value |-> None]
        ELSE read_response(body, t)

\* Service.collect_data: raised, or the value returned.  An exception of
\* the GET loop is not caught.
collect_data(tries, body, t) ==
    LET get == get_loop(tries, 0)
    IN  IF get.raised THEN [raised |-> TRUE, value |-> None]
        ELSE read_response(body, t)

(***************************************************************************)
(* What the sensor answers at time t                                       *)
(***************************************************************************)
ConditionFields == ReadingFields \ {"did", "name", "ts"}

Payload(ts, condition) ==
    Dict([error |-> None,
          data  |-> Dict([did |-> SampleReading.did, name |-> SampleReading.name,
                          ts |-> I(ts), conditions |-> List(<<Dict(condition)>>)])])

SampleCondition(report_time) ==
    [f \in ConditionFields |->
        IF f = "last_report_time" THEN I(report_time) ELSE SampleReading[f]]

SparseCondition(report_time) ==
    [f \in ConditionFields |->
        IF f = "last_report_time" THEN I(report_time)
        ELSE IF f \in NullableFields THEN None ELSE SampleReading[f]]

LegacyCondition(report_time) ==
    [f \in (ConditionFields \ {CanonicalNames[i] : i \in 1..5})
           \cup {LegacyNames[i] : i \in 1..5} |->
        IF f = "last_report_time" THEN I(report_time)
        ELSE IF f = "data_structure_type" THEN I(5)
        ELSE IF f \in ConditionFields THEN SampleReading[f]
        ELSE SampleReading[CanonicalNames[CHOOSE i \in 1..5 : LegacyNames[i] = f]]]

ErrorBody ==
    Dict([error |-> Dict([code |-> I(409), message |-> S("busy")]), data |-> None])

StaleSecs == 120
BootSecs  == 30

SensorBodies(t) ==
    {Payload(t, SampleCondition(t)),                             \* a fresh reading
     Payload(t, SparseCondition(t)),                             \* fresh, nulls
     Payload(t, LegacyCondition(t)),                             \* type 5
     Payload(t - StaleSecs, SampleCondition(t - StaleSecs)),     \* stale
     Payload(BootSecs, SparseCondition(BootSecs)),               \* just booted
     Payload(t, [f \in ConditionFields \ {"temp"} |-> SampleCondition(t)[f]]),
     ErrorBody,
     NotJson}

\* The runs of attempts the GET loop can consume.
TryRuns ==
    {<<"ok">>, <<"other">>,
     <<"ConnectionError", "ok">>, <<"ConnectionError", "other">>,
     <<"ConnectionError", "ConnectionError", "ok">>,
     <<"ConnectionError", "ConnectionError", "other">>,
     <<"ConnectionError", "ConnectionError", "ConnectionError">>}

(***************************************************************************)
(* Service.compute_next_event and Service.do_loop                          *)
(***************************************************************************)
\* int(a / b) for b > 0: Python's int() truncates towards zero.
IntDiv(a, b) == IF a >= 0 THEN a \div b ELSE -((-a) \div b)

\* next_arc_event without the offset: archive events on the minute.
compute_next_event_no_offset(t) ==
    LET next_poll_event == IntDiv(t, pollfreq_secs) * pollfreq_secs + pollfreq_secs
        next_arc_event  == IntDiv(t, arcint_secs) * arcint_secs + arcint_secs
    IN  [event |-> IF next_poll_event = next_arc_event THEN "ARCHIVE" ELSE "POLL",
         secs_to_event |-> next_poll_event - t,
         next_poll_event |-> next_poll_event, next_arc_event |-> next_arc_event]

\* next_poll_event rounded up instead: on a poll boundary it is now itself.
compute_next_event_rounded_up(t) ==
    LET next_poll_event == IntDiv(t + pollfreq_secs - 1, pollfreq_secs) * pollfreq_secs
        next_arc_event  == IntDiv(t - pollfreq_offset, arcint_secs) * arcint_secs
                               + arcint_secs + pollfreq_offset
    IN  [event |-> IF next_poll_event = next_arc_event THEN "ARCHIVE" ELSE "POLL",
         secs_to_event |-> next_poll_event - t,
         next_poll_event |-> next_poll_event, next_arc_event |-> next_arc_event]

\* next_arc_event taken from a poll interval before now.
compute_next_event_arc_from_last_poll(t) ==
    LET next_poll_event == IntDiv(t, pollfreq_secs) * pollfreq_secs + pollfreq_secs
        next_arc_event  == IntDiv(t - pollfreq_secs - pollfreq_offset, arcint_secs)
                               * arcint_secs + arcint_secs + pollfreq_offset
    IN  [event |-> IF next_poll_event = next_arc_event THEN "ARCHIVE" ELSE "POLL",
         secs_to_event |-> next_poll_event - t,
         next_poll_event |-> next_poll_event, next_arc_event |-> next_arc_event]

\* The sleep is a poll interval from now, wherever now is on the grid.
compute_next_event_fixed_sleep(t) ==
    LET next_poll_event == t + pollfreq_secs
        next_arc_event  == IntDiv(t - pollfreq_offset, arcint_secs) * arcint_secs
                               + arcint_secs + pollfreq_offset
    IN  [event |-> IF next_poll_event = next_arc_event THEN "ARCHIVE" ELSE "POLL",
         secs_to_event |-> next_poll_event - t,
         next_poll_event |-> next_poll_event, next_arc_event |-> next_arc_event]

\* The event and the seconds to sleep, and the two times the code logs.
compute_next_event(t) ==
    LET next_poll_event == IntDiv(t, pollfreq_secs) * pollfreq_secs + pollfreq_secs
        next_arc_event  == IntDiv(t - pollfreq_offset, arcint_secs) * arcint_secs
                               + arcint_secs + pollfreq_offset
    IN  [event |-> IF next_poll_event = next_arc_event THEN "ARCHIVE" ELSE "POLL",
         secs_to_event |-> next_poll_event - t,
         next_poll_event |-> next_poll_event, next_arc_event |-> next_arc_event]

Unbound == [t |-> "unbound", v |-> 0]      \* a local variable not yet assigned

\* The try block around collect_data and its except branch.  rd, sess: the
\* loop's reading and session before; res: what collect_data did.  When it
\* raised, the session is closed and dropped and `reading` is read, which
\* is an UnboundLocalError if no cycle has assigned it yet.
do_loop_collect_keeping(rd, sess, res) ==
    IF res.raised
    THEN [reading |-> rd, session |-> "none", crashed |-> rd = Unbound]
    ELSE [reading |-> IF res.value = None /\ rd # Unbound THEN rd ELSE res.value,
          session |-> "open", crashed |-> FALSE]

do_loop_collect(rd, sess, res) ==
    IF res.raised
    THEN [reading |-> rd, session |-> "none", crashed |-> rd = Unbound]
    ELSE [reading |-> res.value, session |-> "open", crashed |-> FALSE]

\* sqlite3.connect(..., timeout=5): how long a write waits on a locked file.
busy_timeout_secs == 5

\* The rest of the loop body: `if reading is not None:` and the two writes,
\* each in its own try block.  t is time.time() when the bucket is computed.
do_loop_save_poll_only(rows, rd, ev, t, old_ts, busy_cur, busy_arc) ==
    IF rd = None
    THEN [rows |-> rows, archive_ts |-> old_ts, cur |-> "skipped", arc |-> "skipped"]
    ELSE LET cur == save_current_reading(rows, rd, busy_cur)
         IN  [rows |-> cur.rows, archive_ts |-> old_ts,
              cur |-> IF cur.ok THEN "ok" ELSE "failed", arc |-> "skipped"]

\* The two writes in one try block: a failed Current write ends the block.
do_loop_save_one_try(rows, rd, ev, t, old_ts, busy_cur, busy_arc) ==
    IF rd = None
    THEN [rows |-> rows, archive_ts |-> old_ts, cur |-> "skipped", arc |-> "skipped"]
    ELSE LET ts  == IF ev = "ARCHIVE"
                    THEN IntDiv(t + 5, arcint_secs) * arcint_secs ELSE old_ts
             cur == save_current_reading(rows, rd, busy_cur)
             arc == IF ev = "ARCHIVE" /\ cur.ok
                    THEN save_archive_reading(cur.rows, ts, rd, busy_arc)
                    ELSE [ok |-> TRUE, rows |-> cur.rows]
         IN  [rows |-> arc.rows, archive_ts |-> ts,
              cur |-> IF cur.ok THEN "ok" ELSE "failed",
              arc |-> IF ev # "ARCHIVE" \/ ~cur.ok THEN "skipped"
                      ELSE IF arc.ok THEN "ok" ELSE "failed"]

\* The Archive row keyed at the reading's own timestamp.
do_loop_save_keyed_at_reading(rows, rd, ev, t, old_ts, busy_cur, busy_arc) ==
    IF rd = None
    THEN [rows |-> rows, archive_ts |-> old_ts, cur |-> "skipped", arc |-> "skipped"]
    ELSE LET ts  == IF ev = "ARCHIVE" THEN rd.ts.v ELSE old_ts
             cur == save_current_reading(rows, rd, busy_cur)
             arc == IF ev = "ARCHIVE"
                    THEN save_archive_reading(cur.rows, ts, rd, busy_arc)
                    ELSE [ok |-> TRUE, rows |-> cur.rows]
         IN  [rows |-> arc.rows, archive_ts |-> ts,
              cur |-> IF cur.ok THEN "ok" ELSE "failed",
              arc |-> IF ev # "ARCHIVE" THEN "skipped"
                      ELSE IF arc.ok THEN "ok" ELSE "failed"]

do_loop_save(rows, rd, ev, t, old_ts, busy_cur, busy_arc) ==
    IF rd = None
    THEN [rows |-> rows, archive_ts |-> old_ts, cur |-> "skipped", arc |-> "skipped"]
    ELSE LET ts  == IF ev = "ARCHIVE"
                    THEN IntDiv(t + 5, arcint_secs) * arcint_secs ELSE old_ts
             cur == save_current_reading(rows, rd, busy_cur)
             arc == IF ev = "ARCHIVE"
                    THEN save_archive_reading(cur.rows, ts, rd, busy_arc)
                    ELSE [ok |-> TRUE, rows |-> cur.rows]
         IN  [rows |-> arc.rows, archive_ts |-> ts,
              cur |-> IF cur.ok THEN "ok" ELSE "failed",
              arc |-> IF ev # "ARCHIVE" THEN "skipped"
                      ELSE IF arc.ok THEN "ok" ELSE "failed"]

\* The clock when the service starts, and how far the model follows it.
BaseTime   == 10 * arcint_secs
StartTimes == {BaseTime - 3, BaseTime + 2}
MaxCycles  == 3
LongFetch  == 52
SlowFetch  == 6
NetSecs    == {0, SlowFetch, LongFetch}

\* cyc: the number of the cycle, the tick it woke up at, the store before it,
\* what its fetch and its writes did; start: the clock when do_loop began;
\* clean: so far every fetch has returned a Reading and no write has found
\* the file locked.
NoCycle == [n |-> 0, tick |-> 0, before |-> EmptyStore, fetch |-> "none",
            got |-> None, cur |-> "skipped", arc |-> "skipped",
            start |-> 0, clean |-> TRUE]

Init ==
    /\ store = EmptyStore /\ last = NoCall
    /\ now \in StartTimes
    /\ pc = "top" /\ event = "POLL" /\ reading = Unbound /\ session = "none"
    /\ archive_ts = 0 /\ cyc = [NoCycle EXCEPT !.start = now]

\* event, secs_to_event = self.compute_next_event(first_time); sleep(secs_to_event)
Sleep ==
    /\ pc = "top" /\ cyc.n < MaxCycles
    /\ LET next == compute_next_event(now)
       IN  /\ event' = next.event
           /\ now' = now + next.secs_to_event
    /\ pc' = "collect"
    /\ cyc' = [NoCycle EXCEPT !.n = cyc.n + 1, !.before = store,
                              !.tick = now + compute_next_event(now).secs_to_event,
                              !.start = cyc.start, !.clean = cyc.clean]
    /\ UNCHANGED <<store, last, reading, session, archive_ts>>

\* The try block: collect_data, which takes the pauses of its retries and
\* the time of the network on the clock.
Collect ==
    /\ pc = "collect"
    /\ \E tries \in TryRuns, body \in SensorBodies(now), net \in NetSecs :
          LET done == now + get_loop(tries, 0).pauses + net
              res  == collect_data(tries, body, done)
              out  == do_loop_collect(reading, session, res)
          IN  /\ now' = done
              /\ reading' = out.reading
              /\ session' = out.session
              /\ pc' = IF out.crashed THEN "crashed" ELSE "save"
              /\ cyc' = [cyc EXCEPT !.fetch = IF res.raised THEN "raised"
                                              ELSE IF res.value = None THEN "none"
                                              ELSE "reading",
                                    !.got = res.value,
                                    !.clean = cyc.clean /\ ~res.raised
                                                /\ res.value # None]
    /\ UNCHANGED <<store, last, event, archive_ts>>

\* The writes of the cycle; a write that finds the file locked gives up
\* after the timeout.
Save ==
    /\ pc = "save"
    /\ \E busy_cur \in BOOLEAN, busy_arc \in BOOLEAN :
          LET out == do_loop_save(store, reading, event, now, archive_ts,
                                  busy_cur, busy_arc)
              waited == (IF out.cur = "failed" /\ busy_cur THEN busy_timeout_secs ELSE 0)
                      + (IF out.arc = "failed" /\ busy_arc THEN busy_timeout_secs ELSE 0)
          IN  /\ store' = out.rows
              /\ archive_ts' = out.archive_ts
              /\ now' = now + waited
              /\ cyc' = [cyc EXCEPT !.cur = out.cur, !.arc = out.arc,
                                    !.clean = cyc.clean /\ waited = 0]
    /\ pc' = "top"
    /\ UNCHANGED <<last, event, reading, session>>

Next == Sleep \/ Collect \/ Save

Spec == Init /\ [][Next]_vars

(***************************************************************************)
(* Properties of the ingestion loop.  A cycle has ended when the loop is   *)
(* back at the top; cyc then tells what the cycle did, cyc.before what the *)
(* store held when it began.                                               *)
(***************************************************************************)
CycleEnded == pc = "top" /\ cyc.n > 0

ArchiveRowsOf(rows) == {x \in rows : x.record_type = ARCHIVE}

\* C7: in a cycle where the fetch returns a Reading and the store writes
\* succeed, that Reading is the Current record after the cycle, on every
\* tick, and one Archive record holding it has been added if and only if
\* the event of the tick is Archive.
C7_ReadingIsWritten ==
    (CycleEnded /\ cyc.fetch = "reading" /\ cyc.cur # "failed" /\ cyc.arc # "failed")
    => /\ \E x \in Rows(CURRENT) :
             /\ Rows(CURRENT) = {x}
             /\ x.timestamp = cyc.got.ts.v
             /\ ReadingEq(x.cols, cyc.got)
       /\ IF event = "ARCHIVE"
          THEN \E x \in Rows(ARCHIVE) :
                  /\ x \notin cyc.before
                  /\ ReadingEq(x.cols, cyc.got)
                  /\ Rows(ARCHIVE) = ArchiveRowsOf(cyc.before) \cup {x}
          ELSE Rows(ARCHIVE) = ArchiveRowsOf(cyc.before)

\* An Archive tick, not the first cycle: the Reading has replaced the Current
\* record of the cycle before and has been added to the archive.
C7_Witness ==
    /\ CycleEnded /\ cyc.fetch = "reading" /\ cyc.cur = "ok" /\ cyc.arc = "ok"
    /\ event = "ARCHIVE"
    /\ \E x \in cyc.before : x.record_type = CURRENT /\ x.timestamp # cyc.got.ts.v

\* C8 (as claimed): a cycle that fails at any step (the fetch raises, the
\* fetch yields no Reading, a store write fails) leaves the store as it was
\* before the cycle.
C8_FailedCycleWritesNothing ==
    (CycleEnded /\ (cyc.fetch \in {"raised", "none"}
                    \/ cyc.cur = "failed" \/ cyc.arc = "failed"))
    => store = cyc.before

\* C9 (as claimed): no fault of a cycle, from the first cycle on, ends
\* do_loop.
C9_LoopNeverEnds == pc # "crashed"

\* C10: when collect_data returns None the cycle writes nothing: the Current
\* row and all Archive rows are as before the cycle, also on an Archive tick.
C10_NoReadingNoWrite ==
    (CycleEnded /\ cyc.fetch = "none") => store = cyc.before

\* collect_data returned None on an Archive tick, after a cycle that had
\* stored a Current record.
C10_Witness ==
    /\ CycleEnded /\ cyc.fetch = "none" /\ event = "ARCHIVE"
    /\ Rows(CURRENT) # {}
    /\ reading = None

(***************************************************************************)
(* The sensor client on its own: collect_data, is_sane and the type 5      *)
(* conversion applied to the payloads a sensor (or whatever answers on     *)
(* its port) can send                                                      *)
(***************************************************************************)
\* A payload with one key of data, of conditions[0] or of the top level
\* set, or taken away.
WithData(p, k, x) ==
    Dict([p.v EXCEPT !["data"] = Dict(SetKey(p.v["data"].v, k, x))])

WithoutData(p, k) ==
    Dict([p.v EXCEPT !["data"] =
            Dict([n \in DOMAIN p.v["data"].v \ {k} |-> p.v["data"].v[n]])])

WithCondition(p, k, x) ==
    WithData(p, "conditions", List(<<Dict(SetKey(Condition0(p), k, x))>>))

WithoutCondition(p, k) ==
    WithData(p, "conditions",
             List(<<Dict([n \in DOMAIN Condition0(p) \ {k} |-> Condition0(p)[n]])>>))

WithError(p, e) == Dict([p.v EXCEPT !["error"] = e])

\* The ages at the edge of the staleness check.
EdgeAges == {max_age_secs, max_age_secs + 1}

\* Payloads with a non-null error, of several shapes, around any data.
ErrorBodies(t) ==
    {ErrorBody,
     WithError(Payload(t, SampleCondition(t)), S("busy")),
     WithError(Payload(t, SampleCondition(t)), Dict([message |-> S("busy")])),
     WithError(Payload(t, SampleCondition(t)),
               Dict([code |-> S("409"), message |-> S("busy")])),
     WithError(Payload(t, SampleCondition(t)),
               Dict([code |-> I(409), message |-> S("busy")])),
     WithError(Payload(t, SampleCondition(t)), I(0)),
     WithError(Payload(t, SampleCondition(t)), B(FALSE)),
     WithError(Payload(t, [f \in ConditionFields \ {"temp"} |-> SampleCondition(t)[f]]),
               List(<<>>)),
     Dict([error |-> S("busy")])}

\* A sensor whose clock is ahead reports a time this far after now.
FutureSecs == 30

\* Payloads of every age around the limit, with pm_1 present and with pm_1
\* null.
AgedBodies(t) ==
    {Payload(t - a, SampleCondition(t - a)) : a \in EdgeAges \cup {StaleSecs}}
    \cup {Payload(t - a, SparseCondition(t - a)) : a \in EdgeAges \cup {StaleSecs}}
    \cup {WithCondition(Payload(t, SampleCondition(t)), "last_report_time", None)}
    \cup {Payload(t, SampleCondition(t + FutureSecs)),
          Payload(t, SparseCondition(t + FutureSecs)),
          Payload(t, SampleCondition(t - (max_age_secs - 1)))}

\* Payloads that depart from the wire format in one field.
OddBodies(t) ==
    LET p == Payload(t, SampleCondition(t))
    IN  {WithoutData(p, "did"), WithData(p, "did", I(12)), WithData(p, "did", None),
         WithoutData(p, "name"), WithData(p, "name", I(12)),
         WithoutData(p, "ts"), WithData(p, "ts", B(TRUE)), WithData(p, "ts", F(15 * Unit)),
         WithData(p, "conditions", List(<<>>)),
         WithData(p, "conditions", List(<<I(5)>>)),
         WithData(p, "conditions", Dict(SampleCondition(t))),
         WithoutData(p, "conditions"),
         WithCondition(p, "temp", I(74)), WithCondition(p, "temp", None),
         WithoutCondition(p, "heat_index"),
         WithCondition(p, "pm_1", I(0)), WithoutCondition(p, "pm_10_nowcast"),
         WithCondition(p, "pm_1_last", B(TRUE)), WithCondition(p, "pm_1_last", F(11 * Unit)),
         WithCondition(p, "lsid", S("x")), WithoutCondition(p, "lsid"),
         WithoutCondition(p, "pct_pm_data_nowcast"),
         WithCondition(p, "data_structure_type", I(7)),
         WithCondition(p, "data_structure_type", F(6 * Unit)),
         WithoutCondition(p, "data_structure_type"),
         Dict([data |-> p.v["data"]]),
         Dict([data |-> WithoutData(p, "name").v["data"]]),
         Dict([error |-> None, data |-> List(<<I(1)>>)]),
         List(<<I(1), I(2)>>),
         None}

\* Payloads of data_structure_type 5.
LegacyBodies(t) ==
    LET p == Payload(t, LegacyCondition(t))
    IN  {p,
         WithCondition(p, "pm_10p0", None),
         WithCondition(p, "data_structure_type", F(5 * Unit)),
         WithoutCondition(p, "pm_10p0_nowcast"),
         WithoutCondition(p, "pm_10p0"),
         WithCondition(p, "pm_10p0_last_3_hours", I(24)),
         WithCondition(p, "pm_10", F(1 * Unit))}

\* Payloads of type 5 that lack one or more of the five legacy fields.
PartialLegacyBodies(t) ==
    {Payload(t, [f \in DOMAIN LegacyCondition(t) \ missing |-> LegacyCondition(t)[f]]) :
        missing \in SUBSET {LegacyNames[i] : i \in 1..Len(LegacyNames)} \ {{}}}

WireBodies(t) ==
    SensorBodies(t) \cup ErrorBodies(t) \cup AgedBodies(t) \cup OddBodies(t)
        \cup LegacyBodies(t) \cup PartialLegacyBodies(t)

\* collect_data is called at this time.
SensorTime == BaseTime

CollectData ==
    \E tries \in TryRuns, body \in WireBodies(SensorTime) :
        LET res == collect_data(tries, body, SensorTime)
        IN  /\ last' = [op |-> "collect_data", tries |-> tries, body |-> body,
                        get |-> get_loop(tries, 0), raised |-> res.raised,
                        value |-> res.value]
            /\ UNCHANGED <<store, loopvars>>

\* is_sane called on a parsed payload that has data and conditions.
IsSane ==
    \E body \in {b \in WireBodies(SensorTime) : HasStructureType(b)} :
        /\ last' = [op |-> "is_sane", body |-> body, result |-> is_sane(body)]
        /\ UNCHANGED <<store, loopvars>>

\* convert_data_structure_type_5_to_6 called as collect_data calls it.
ConvertType5 ==
    \E body \in {b \in WireBodies(SensorTime) :
                    /\ HasStructureType(b)
                    /\ PyEq(Condition0(b)["data_structure_type"], I(5))} :
        /\ last' = [op |-> "convert_data_structure_type_5_to_6", body |-> body,
                    j |-> convert_data_structure_type_5_to_6(body)]
        /\ UNCHANGED <<store, loopvars>>

InitSensor == store = EmptyStore /\ last = NoCall /\ LoopIdle

NextSensor == CollectData \/ IsSane \/ ConvertType5

SpecSensor == InitSensor /\ [][NextSensor]_vars

(***************************************************************************)
(* Properties of the sensor client                                         *)
(***************************************************************************)
GetReturned == last.op = "collect_data" /\ ~last.get.raised

\* C11 (as claimed): collect_data never propagates an exception: a fault at
\* any step, the GET with its retries included, yields None.
C11_NeverPropagates == last.op = "collect_data" => ~last.raised

\* C11 (amended): collect_data propagates an exception exactly when the GET
\* loop raises (a third ConnectionError, or any other exception of an
\* attempt); once the GET has returned, a fault at any later step yields None.
C11_PropagatesGetOnly ==
    last.op = "collect_data" =>
        /\ last.raised <=> last.get.raised
        /\ (GetReturned /\ parse_response(last.body, SensorTime).exc)
              => last.value = None

\* The third attempt returned a response that is not JSON: the exception of
\* r.json() became None.
C11_Witness ==
    /\ GetReturned /\ last.get.attempts = 3
    /\ last.body = NotJson
    /\ ~last.raised /\ last.value = None

\* C12: a fetched payload whose top-level error field is not null yields None
\* and no exception, whatever the error value and the rest of the payload are.
C12_ErrorYieldsNone ==
    (GetReturned /\ HasKey(last.body, "error") /\ ~IsNone(last.body.v["error"]))
    => (~last.raised /\ last.value = None)

\* The error is a string, around data that would make a Reading.
C12_Witness ==
    /\ GetReturned
    /\ last.body = WithError(Payload(SensorTime, SampleCondition(SensorTime)), S("busy"))
    /\ ~last.raised /\ last.value = None

\* The payload is sane as it arrives and its last_report_time is a number.
SaneWithAge(body) ==
    /\ HasStructureType(body)
    /\ ~is_sane(body).raised /\ is_sane(body).sane
    /\ ~IsNone(Condition0(body)["last_report_time"])

\* C13: a sane payload whose last_report_time is more than 60 seconds before
\* now yields None, with pm_1 null and with pm_1 not null.
C13_StaleYieldsNone ==
    (/\ GetReturned /\ SaneWithAge(last.body)
     /\ SensorTime - Condition0(last.body)["last_report_time"].v > max_age_secs)
    => last.value = None

\* The reading is 120 seconds old and its pm_1 is present.
C13_Witness ==
    /\ GetReturned
    /\ last.body = Payload(SensorTime - StaleSecs, SampleCondition(SensorTime - StaleSecs))
    /\ ~IsNone(Condition0(last.body)["pm_1"])
    /\ last.value = None

\* The wire reading format: did and name are strings, ts is an integer, and
\* conditions[0] has every field with its type, null where the format allows.
DeclaredType(f) ==
    IF f \in StringFields THEN "str" ELSE IF f \in IntFields THEN "int" ELSE "float"

HasDeclaredType(d, f) ==
    /\ HasKey(d, f)
    /\ \/ d.v[f].t = DeclaredType(f)
       \/ f \in NullableFields /\ IsNone(d.v[f])

WireFormat(body) ==
    /\ HasStructureType(body)
    /\ \A f \in {"did", "name", "ts"} : HasDeclaredType(body.v["data"], f)
    /\ \A f \in ConditionFields :
          HasDeclaredType(body.v["data"].v["conditions"].v[1], f)

\* C14 (as claimed): is_sane returns false, and does not raise, on every
\* payload in which a field of the wire format is absent or of another type
\* and on every payload whose data_structure_type is not 6; and every Reading
\* collect_data returns has did, name and ts present with their types.
C14_IsSaneRejects ==
    /\ last.op = "is_sane" =>
          ((~WireFormat(last.body)
              \/ Condition0(last.body)["data_structure_type"] # I(6))
           => (~last.result.raised /\ ~last.result.sane))
    /\ (last.op = "collect_data" /\ last.value # None) =>
          /\ last.value.did.t = "str"
          /\ last.value.name.t = "str"
          /\ last.value.ts.t = "int"

\* A payload of type 5 in the wire format of its time: the five legacy fields
\* in place of the pm_10 fields, floats or null, and all else as declared.
LegacyFormat(body) ==
    /\ HasStructureType(body)
    /\ \A f \in {"did", "name", "ts"} : HasDeclaredType(body.v["data"], f)
    /\ LET c == body.v["data"].v["conditions"].v[1]
       IN  /\ \A f \in ConditionFields \ {CanonicalNames[i] : i \in 1..Len(CanonicalNames)} :
                 HasDeclaredType(c, f)
           /\ \A i \in 1..Len(LegacyNames) :
                 /\ HasKey(c, LegacyNames[i])
                 /\ c.v[LegacyNames[i]].t \in {"float", "null"}
           /\ PyEq(c.v["data_structure_type"], I(5))

\* C15: a payload of type 5 that carries the five legacy fields is upgraded:
\* its data_structure_type is 6, it passes is_sane, and each pm_10 field has
\* the value its pm_10p0 field had.
C15_LegacyUpgraded ==
    (last.op = "convert_data_structure_type_5_to_6" /\ LegacyFormat(last.body))
    => /\ Condition0(last.j)["data_structure_type"] = I(6)
       /\ ~is_sane(last.j).raised /\ is_sane(last.j).sane
       /\ \A i \in 1..Len(LegacyNames) :
             Condition0(last.j)[CanonicalNames[i]] = Condition0(last.body)[LegacyNames[i]]

\* The five legacy values differ from each other and all have been moved.
C15_Witness ==
    /\ last.op = "convert_data_structure_type_5_to_6"
    /\ last.body = Payload(SensorTime, LegacyCondition(SensorTime))
    /\ Cardinality({Condition0(last.j)[CanonicalNames[i]] : i \in 1..5}) = 5
    /\ Condition0(last.j)["pm_10_nowcast"] = SampleReading["pm_10_nowcast"]

(***************************************************************************)
(* The way of a Reading through the store and out on the wire: a save on   *)
(* a new database, the fetch and Service.convert_to_json, as in            *)
(* test_db_current_records and test_db_archive_records                     *)
(***************************************************************************)
\* Service.convert_to_json: the dict it builds; dumps writes None as null.
convert_to_json(r) ==
    Dict([data  |-> Dict([did |-> r.did, name |-> r.name, ts |-> r.ts,
                          conditions |-> List(<<Dict([f \in ConditionFields |-> r[f]])>>)]),
          error |-> None])

\* Database.fetch_current_reading_as_json: the first record, or '{}'.
fetch_current_reading_as_json(rows) ==
    LET out == fetch_current_readings(rows)
    IN  IF Len(out) = 0 THEN Dict(<<>>) ELSE convert_to_json(out[1])

\* Database.fetch_archive_readings_as_json: the list of the records.
fetch_archive_readings_as_json(rows, since_ts, max_ts, limit) ==
    LET out == fetch_archive_readings(rows, since_ts, max_ts, limit)
    IN  List([i \in 1..Len(out) |-> convert_to_json(out[i])])

\* A reading whose counts and concentrations are zero.
ZeroReading ==
    [f \in ReadingFields |->
        IF f \in NullableFields
        THEN IF f \in IntFields THEN I(0) ELSE F(0)
        ELSE IF f = "ts" THEN I(300) ELSE SampleReading[f]]

\* The fields the readings below have null, in every combination.
AbsentFields == {"lsid", "pm_1", "pm_10_nowcast", "last_report_time"}

WithAbsent(r, absent) == [f \in ReadingFields |-> IF f \in absent THEN None ELSE r[f]]

TripReadings ==
    {WithAbsent(r, absent) :
        r \in {SampleReading, ZeroReading, PreciseReading}, absent \in SUBSET AbsentFields}

\* db = Database.create(...); save_current_reading twice; the fetch.
TestCurrent ==
    \E r1 \in {SampleReading, SparseReading}, r2 \in TripReadings :
        LET first  == save_current_reading(EmptyStore, r1, FALSE)
            second == save_current_reading(first.rows, r2, FALSE)
        IN  /\ store' = second.rows
            /\ last' = [op |-> "test_db_current_records", r |-> r2, ok |-> second.ok,
                        returned |-> fetch_current_readings(second.rows),
                        json |-> fetch_current_reading_as_json(second.rows)]
            /\ UNCHANGED loopvars

\* db = Database.create(...); save_archive_reading; the fetch.
TestArchive ==
    \E r \in TripReadings, t \in BucketTimes :
        LET res == save_archive_reading(EmptyStore, t, r, FALSE)
        IN  /\ store' = res.rows
            /\ last' = [op |-> "test_db_archive_records", r |-> r, ok |-> res.ok,
                        returned |-> fetch_archive_readings(res.rows, 0, None, None),
                        json |-> fetch_archive_readings_as_json(res.rows, 0, None, None)]
            /\ UNCHANGED loopvars

InitTrip == store = EmptyStore /\ last = NoCall /\ LoopIdle

NextTrip == TestCurrent \/ TestArchive

SpecTrip == InitTrip /\ [][NextTrip]_vars

\* The record that came back, and its rendering.
TripDone == last.op \in {"test_db_current_records", "test_db_archive_records"}

TripJson ==
    IF last.op = "test_db_current_records" THEN last.json ELSE last.json.v[1]

\* The fields of the record that came back are null where the Reading's are.
NullsAsSaved ==
    /\ Len(last.returned) = 1
    /\ \A f \in ReadingFields : IsNone(last.returned[1][f]) <=> IsNone(last.r[f])

\* C16 (as claimed): for every Reading with any subset of the nullable fields
\* null, saving it as Current or Archive and fetching it returns null in
\* exactly those fields and the original values in the others, and the wire
\* rendering shows null for exactly those fields.
C16_AbsencePreserved ==
    TripDone =>
        /\ NullsAsSaved
        /\ \A f \in ReadingFields :
              ~IsNone(last.r[f]) => last.returned[1][f] = last.r[f]
        /\ HasStructureType(TripJson)
        /\ \A f \in ConditionFields :
              IsNone(Condition0(TripJson)[f]) <=> IsNone(last.r[f])

(***************************************************************************)
(* start and the cadence of do_loop: the configuration is checked, then    *)
(* compute_next_event is called once a cycle, each cycle taking less than  *)
(* a poll interval                                                         *)
(***************************************************************************)
\* The configuration files start is given.
Configs ==
    [hostname : {"", "airlink"}, db_file : {"", "/home/airlinkproxy/archive/airlinkproxy.sdb"},
     pollfreq_secs : {0, 5, 7, 10}, arcint_secs : {60, 62, 65}]

\* start, without --test and --dump: "error" is parser.error (exit status 2),
\* "raised" the ZeroDivisionError of the % operator, "loop" the call of
\* do_loop.
start_unchecked(config) ==
    IF config.hostname = "" THEN "error"
    ELSE IF config.db_file = "" THEN "error"
    ELSE "loop"

start(config) ==
    IF config.hostname = "" THEN "error"
    ELSE IF config.db_file = "" THEN "error"
    ELSE IF config.pollfreq_secs = 0 THEN "raised"
    ELSE IF config.arcint_secs % config.pollfreq_secs # 0 THEN "error"
    ELSE "loop"

\* The clock when start is called, from the epoch on, and how many cycles
\* the model follows.
ClockStarts == 0..(arcint_secs + pollfreq_offset - 1)
MaxTicks    == 14
WorkSecs    == 0..(pollfreq_secs - 1)
WindowTicks == arcint_secs \div pollfreq_secs

NoTicks == [n |-> 0, ticks |-> <<>>]

Newest(seq, n) == IF Len(seq) <= n THEN seq ELSE SubSeq(seq, Len(seq) - n + 1, Len(seq))

Start ==
    /\ pc = "start"
    /\ \E config \in Configs :
          /\ last' = [op |-> "start", config |-> config, out |-> start(config)]
          /\ pc' = IF start(config) = "loop" THEN "top" ELSE "exited"
    /\ UNCHANGED <<store, now, event, reading, session, archive_ts, cyc>>

\* One cycle of do_loop: compute_next_event, the sleep, and a loop body that
\* writes nothing and takes work seconds.  cyc.ticks: the newest ticks the
\* loop woke up at and the event of each.  last.config: the configuration
\* start was given.
Cycle ==
    /\ pc = "top" /\ cyc.n < MaxTicks
    /\ \E work \in WorkSecs :
          LET next == compute_next_event(now)
              tick == now + next.secs_to_event
          IN  /\ event' = next.event
              /\ now' = tick + work
              /\ last' = [op |-> "compute_next_event", now |-> now,
                          event |-> next.event, secs_to_event |-> next.secs_to_event,
                          next_arc_event |-> next.next_arc_event,
                          config |-> last.config]
              /\ cyc' = [n |-> cyc.n + 1,
                         ticks |-> Newest(Append(cyc.ticks, [tick |-> tick,
                                                             event |-> next.event]),
                                          WindowTicks)]
    /\ UNCHANGED <<store, pc, reading, session, archive_ts>>

InitClock ==
    /\ store = EmptyStore /\ last = NoCall
    /\ now \in ClockStarts
    /\ pc = "start" /\ event = "POLL" /\ reading = Unbound /\ session = "none"
    /\ archive_ts = 0 /\ cyc = NoTicks

NextClock == Start \/ Cycle

SpecClock == InitClock /\ [][NextClock]_vars

(***************************************************************************)
(* Properties of the scheduler and of start                                *)
(***************************************************************************)
\* The ticks as the spec defines them, without the arithmetic of the code.
IsPollTick(x)    == x % pollfreq_secs = 0
IsArchiveTick(x) == x >= pollfreq_offset /\ (x - pollfreq_offset) % arcint_secs = 0

NextPollTick(t) ==
    CHOOSE x \in (t + 1)..(t + pollfreq_secs) :
        IsPollTick(x) /\ \A y \in (t + 1)..(x - 1) : ~IsPollTick(y)

NextArchiveTick(t) ==
    CHOOSE x \in (t + 1)..(t + arcint_secs) :
        IsArchiveTick(x) /\ \A y \in (t + 1)..(x - 1) : ~IsArchiveTick(y)

Called == last.op = "compute_next_event"

\* C17: with poll interval 5, archive interval 60 and offset 5 the event is
\* Archive exactly when the next poll tick is the next archive tick, and of
\* any twelve consecutive poll ticks one is Archive and eleven are Poll.  (The
\* clock is past the first offset seconds of 1970.)
C17_OneArchiveInTwelve ==
    /\ (Called /\ last.now >= pollfreq_offset) =>
          (last.event = "ARCHIVE" <=> NextPollTick(last.now) = NextArchiveTick(last.now))
    /\ (Len(cyc.ticks) = WindowTicks /\ cyc.ticks[1].tick > pollfreq_offset) =>
          /\ \A i \in 1..(WindowTicks - 1) :
                cyc.ticks[i + 1].tick = cyc.ticks[i].tick + pollfreq_secs
          /\ Cardinality({i \in 1..WindowTicks : cyc.ticks[i].event = "ARCHIVE"}) = 1
          /\ Cardinality({i \in 1..WindowTicks : cyc.ticks[i].event = "POLL"})
                = WindowTicks - 1

\* Twelve ticks with the Archive tick in their middle.
C17_Witness ==
    /\ Called /\ Len(cyc.ticks) = WindowTicks
    /\ cyc.ticks[1].tick > pollfreq_offset
    /\ cyc.ticks[6].event = "ARCHIVE"
    /\ cyc.ticks[6].tick = arcint_secs + pollfreq_offset

\* C18: for every now >= 0 the next poll tick is the smallest multiple of the
\* poll interval greater than now, and the seconds to sleep are that tick
\* minus now: not negative and not more than the poll interval.
C18_NextPollTick ==
    Called =>
        /\ last.now + last.secs_to_event = NextPollTick(last.now)
        /\ last.secs_to_event >= 0
        /\ last.secs_to_event <= pollfreq_secs

\* Called on a poll boundary, in a later cycle: the sleep is a whole poll
\* interval.
C18_Witness ==
    /\ Called /\ last.now > 0 /\ IsPollTick(last.now)
    /\ last.secs_to_event = pollfreq_secs
    /\ cyc.n > 1

\* C19 (as claimed): start with an archive interval that is not a multiple of
\* the poll interval ends before the loop is entered, and so does start with
\* an archive interval of 65 and a poll interval of 5.
C19_StartRefusesOriginal ==
    (last.op = "start" /\ last.config.pollfreq_secs # 0) =>
        /\ last.config.arcint_secs % last.config.pollfreq_secs # 0
              => (pc = "exited" /\ cyc = NoTicks)
        /\ (last.config.arcint_secs = 65 /\ last.config.pollfreq_secs = 5)
              => (pc = "exited" /\ cyc = NoTicks)

\* C19 (amended): start with an archive interval that is not a multiple of the
\* poll interval ends before the loop is entered (62 and 5, 60 and 7); 65 is
\* a multiple of 5, and start with 65 and 5 enters the loop when hostname and
\* database file are given.
C19_StartRefuses ==
    (last.op = "start" /\ last.config.pollfreq_secs # 0) =>
        /\ last.config.arcint_secs % last.config.pollfreq_secs # 0
              => (pc = "exited" /\ cyc = NoTicks)
        /\ (/\ last.config.arcint_secs % last.config.pollfreq_secs = 0
            /\ last.config.hostname # "" /\ last.config.db_file # "")
              => pc = "top"

\* A complete configuration with 62 and 5 has been refused.
C19_Witness ==
    /\ last.op = "start" /\ pc = "exited"
    /\ last.config.hostname # "" /\ last.config.db_file # ""
    /\ last.config.arcint_secs = 62 /\ last.config.pollfreq_secs = 5
    /\ last.out = "error"

(***************************************************************************)
(* The archive over the run of do_loop                                     *)
(***************************************************************************)
\* The archive ticks between the start of do_loop and the tick of the cycle
\* that has just ended, and the bucket of each: k * arcint_secs for the tick
\* k * arcint_secs + pollfreq_offset.
ArchiveTicksSoFar == {x \in (cyc.start + 1)..cyc.tick : IsArchiveTick(x)}

BucketsSoFar == {x - pollfreq_offset : x \in ArchiveTicksSoFar}

\* C20 (as claimed): while do_loop runs and every fetch returns a Reading,
\* one Archive row is written for each archive interval, none skipped and none
\* twice, whatever time the fetches and writes take within their timeouts.
C20_OneArchivePerInterval ==
    (CycleEnded /\ cyc.clean) =>
        /\ {x.timestamp : x \in Rows(ARCHIVE)} = BucketsSoFar
        /\ Cardinality(Rows(ARCHIVE)) = Cardinality(BucketsSoFar)

(***************************************************************************)
(* server.py: the request line, Handler.parse_args,                        *)
(* Handler.parse_requestline and Handler.do_GET                            *)
(***************************************************************************)
\* A request line 'GET <cmd>?<args> HTTP/1.1'.  args holds the arguments in
\* the order they are written, each a key and the text after its '='; sep
\* is the character written between two arguments.
Commands ==
    {"/get-version", "/get-earliest-timestamp", "/v1/current_conditions",
     "/fetch-archive-records", "/", "/nope"}
ArgKeys  == {"since_ts", "max_ts", "limit"}
Separators == {",", "&"}

\* The texts written after 'since_ts=', 'max_ts=' and 'limit='.
ArgTexts(key) ==
    CASE key = "since_ts" -> {"0", "60", "x", ""}
      [] key = "max_ts"   -> {"120", "x"}
      [] key = "limit"    -> {"1", "-1", "1.5"}
AllTexts == UNION {ArgTexts(k) : k \in ArgKeys}

\* int(text) of the texts above: the texts it accepts and their values.
IntTexts == {"0", "60", "120", "1", "-1"}
IntValue(text) ==
    CASE text = "0" -> 0 [] text = "60" -> 60 [] text = "120" -> 120
      [] text = "1" -> 1 [] text = "-1" -> -1

\* Argument lists: any of the three keys, each at most once, in the order
\* since_ts, max_ts, limit or in the reverse order.
ArgOrders == {<<"since_ts", "max_ts", "limit">>, <<"limit", "max_ts", "since_ts">>}
KeysIn(order, keys) == SelectSeq(order, LAMBDA k : k \in keys)
ArgLists ==
    UNION {{[i \in 1..Len(KeysIn(o, K)) |->
                [key |-> KeysIn(o, K)[i], text |-> f[KeysIn(o, K)[i]]]] :
              f \in {g \in [K -> AllTexts] : \A k \in K : g[k] \in ArgTexts(k)}} :
           o \in ArgOrders, K \in SUBSET ArgKeys}

RequestLines ==
    {[cmd |-> c, sep |-> s, args |-> a] :
        c \in Commands, s \in Separators,
        a \in {<<>>, <<[key |-> "since_ts", text |-> "x"]>>}}
    \cup {[cmd |-> "/fetch-archive-records", sep |-> s, args |-> a] :
            s \in Separators, a \in ArgLists}

\* Handler.parse_args: args_in is cut at each ',' and every piece that holds
\* an '=' is cut at each '='; the text before the first '=' is the key, the
\* text between the first and the second '=' the value.  So with '&' between
\* the arguments there is one piece, its key is the first key and its value
\* the first text followed by '&' and the second key.  A value is held as
\* its text and the key that follows it in the same piece ("" when none).
parse_args(args_in) ==
    IF Len(args_in.args) = 0 THEN <<>>
    ELSE IF args_in.sep = ","
    THEN [k \in {args_in.args[i].key : i \in 1..Len(args_in.args)} |->
            LET i == CHOOSE i \in 1..Len(args_in.args) :
                        /\ args_in.args[i].key = k
                        /\ \A n \in (i + 1)..Len(args_in.args) : args_in.args[n].key # k
            IN  [text |-> args_in.args[i].text, tail |-> ""]]
    ELSE [k \in {args_in.args[1].key} |->
            [text |-> args_in.args[1].text,
             tail |-> IF Len(args_in.args) > 1 THEN args_in.args[2].key ELSE ""]]

\* int(args_dict[key]) inside its try block.
ParseInt(value) ==
    IF value.tail = "" /\ value.text \in IntTexts
    THEN [ok |-> TRUE, v |-> I(IntValue(value.text))]
    ELSE [ok |-> FALSE, v |-> None]

ERROR                  == "ERROR"
GET_VERSION            == "GET_VERSION"
GET_EARLIEST_TIMESTAMP == "GET_EARLIEST_TIMESTAMP"
FETCH_CURRENT_RECORD   == "FETCH_CURRENT_RECORD"
FETCH_ARCHIVE_RECORDS  == "FETCH_ARCHIVE_RECORDS"

NoError == [msg |-> "", found |-> [text |-> "", tail |-> ""]]
MustBeInteger(key, value) == [msg |-> key, found |-> value]

\* One of the three try blocks: the value of the key when it is there.
ParseKey(args_dict, key) ==
    IF key \in DOMAIN args_dict
    THEN [there |-> TRUE, ok |-> ParseInt(args_dict[key]).ok,
          v |-> ParseInt(args_dict[key]).v]
    ELSE [there |-> FALSE, ok |-> TRUE, v |-> None]

\* The max_ts and limit try blocks left out of the ERROR outcome.
parse_requestline_since_only(requestline) ==
    LET cmd == requestline.cmd
        args_dict == parse_args(requestline)
        since == ParseKey(args_dict, "since_ts")
        max   == ParseKey(args_dict, "max_ts")
        lim   == ParseKey(args_dict, "limit")
        known == CASE cmd = "/get-version" -> GET_VERSION
                   [] cmd = "/get-earliest-timestamp" -> GET_EARLIEST_TIMESTAMP
                   [] cmd = "/v1/current_conditions" -> FETCH_CURRENT_RECORD
                   [] cmd = "/fetch-archive-records" -> FETCH_ARCHIVE_RECORDS
                   [] OTHER -> ERROR
    IN  IF known # FETCH_ARCHIVE_RECORDS
        THEN [request_type |-> known, since_ts |-> None, max_ts |-> None,
              limit |-> None,
              error |-> IF known # ERROR THEN NoError
                        ELSE IF cmd = "/" THEN [NoError EXCEPT !.msg = "A command must be specified."]
                        ELSE [NoError EXCEPT !.msg = "Unknown command"],
              request |-> requestline]
        ELSE IF ~since.there
        THEN [request_type |-> ERROR, since_ts |-> None, max_ts |-> None,
              limit |-> None,
              error |-> [NoError EXCEPT !.msg = "fetch-archive-records requires since_ts argument"],
              request |-> requestline]
        ELSE [request_type |-> IF since.ok THEN FETCH_ARCHIVE_RECORDS ELSE ERROR,
              since_ts |-> since.v, max_ts |-> max.v, limit |-> lim.v,
              error |-> IF ~since.ok THEN MustBeInteger("since_ts", args_dict["since_ts"])
                        ELSE NoError,
              request |-> requestline]

\* Handler.parse_requestline.  The three try blocks run one after the other
\* whatever the one before found; the error message is that of the last one
\* that failed.
parse_requestline(requestline) ==
    LET cmd == requestline.cmd
        args_dict == parse_args(requestline)
        since == ParseKey(args_dict, "since_ts")
        max   == ParseKey(args_dict, "max_ts")
        lim   == ParseKey(args_dict, "limit")
        known == CASE cmd = "/get-version" -> GET_VERSION
                   [] cmd = "/get-earliest-timestamp" -> GET_EARLIEST_TIMESTAMP
                   [] cmd = "/v1/current_conditions" -> FETCH_CURRENT_RECORD
                   [] cmd = "/fetch-archive-records" -> FETCH_ARCHIVE_RECORDS
                   [] OTHER -> ERROR
    IN  IF known # FETCH_ARCHIVE_RECORDS
        THEN [request_type |-> known, since_ts |-> None, max_ts |-> None,
              limit |-> None,
              error |-> IF known # ERROR THEN NoError
                        ELSE IF cmd = "/" THEN [NoError EXCEPT !.msg = "A command must be specified."]
                        ELSE [NoError EXCEPT !.msg = "Unknown command"],
              request |-> requestline]
        ELSE IF ~since.there
        THEN [request_type |-> ERROR, since_ts |-> None, max_ts |-> None,
              limit |-> None,
              error |-> [NoError EXCEPT !.msg = "fetch-archive-records requires since_ts argument"],
              request |-> requestline]
        ELSE [request_type |-> IF since.ok /\ max.ok /\ lim.ok
                               THEN FETCH_ARCHIVE_RECORDS ELSE ERROR,
              since_ts |-> since.v, max_ts |-> max.v, limit |-> lim.v,
              error |-> IF ~lim.ok THEN MustBeInteger("limit", args_dict["limit"])
                        ELSE IF ~max.ok THEN MustBeInteger("max_ts", args_dict["max_ts"])
                        ELSE IF ~since.ok THEN MustBeInteger("since_ts", args_dict["since_ts"])
                        ELSE NoError,
              request |-> requestline]

VERSION == "1"

\* The earliest timestamp taken over the rows of both record types.
get_earliest_timestamp_any_type(rows) ==
    IF rows = {} THEN Dict(<<>>)
    ELSE Dict([timestamp |->
                 I((CHOOSE x \in rows : \A y \in rows : x.timestamp <= y.timestamp).timestamp)])

\* Database.get_earliest_timestamp_as_json: SELECT timestamp ... ORDER BY
\* timestamp LIMIT 1 over the Archive rows, and dumps of the dict.
get_earliest_timestamp_as_json(rows) ==
    LET archive == {x \in rows : x.record_type = ARCHIVE}
    IN  IF archive = {} THEN Dict(<<>>)
        ELSE Dict([timestamp |->
                     I((CHOOSE x \in archive :
                           \A y \in archive : x.timestamp <= y.timestamp).timestamp)])

\* What a handler sent: respond_success writes the JSON text, respond_error
\* the text '{ error : "..." }'; both send status 200.  reads: the SELECT
\* statements the handler ran; rows: the table when the handler is done.
Success(rows, json, reads) ==
    [status |-> 200, kind |-> "json", body |-> json, reads |-> reads, rows |-> rows]
Failure(rows, error) ==
    [status |-> 200, kind |-> "error", body |-> Dict([error |-> error]),
     reads |-> 0, rows |-> rows]

\* A handler that clears the Current row before it answers.
do_GET_clearing(rows, requestline) ==
    LET request == parse_requestline(requestline)
        kept == {x \in rows : x.record_type # CURRENT}
    IN  CASE request.request_type = GET_VERSION ->
                Success(kept, Dict([version |-> S(VERSION)]), 0)
          [] request.request_type = GET_EARLIEST_TIMESTAMP ->
                Success(kept, get_earliest_timestamp_as_json(rows), 1)
          [] request.request_type = FETCH_CURRENT_RECORD ->
                Success(kept, fetch_current_reading_as_json(rows), 1)
          [] request.request_type = FETCH_ARCHIVE_RECORDS ->
                Success(kept, fetch_archive_readings_as_json(
                                  rows, request.since_ts.v, request.max_ts,
                                  request.limit), 1)
          [] OTHER -> Failure(kept, request.error)

\* Handler.do_GET.  Each branch opens its own Database on db_file and runs
\* one SELECT; no branch runs another statement.
do_GET(rows, requestline) ==
    LET request == parse_requestline(requestline)
    IN  CASE request.request_type = GET_VERSION ->
                Success(rows, Dict([version |-> S(VERSION)]), 0)
          [] request.request_type = GET_EARLIEST_TIMESTAMP ->
                Success(rows, get_earliest_timestamp_as_json(rows), 1)
          [] request.request_type = FETCH_CURRENT_RECORD ->
                Success(rows, fetch_current_reading_as_json(rows), 1)
          [] request.request_type = FETCH_ARCHIVE_RECORDS ->
                Success(rows, fetch_archive_readings_as_json(
                                  rows, request.since_ts.v, request.max_ts,
                                  request.limit), 1)
          [] OTHER -> Failure(rows, request.error)

(***************************************************************************)
(* The query server beside the ingestion loop, on one database file        *)
(***************************************************************************)
\* One cycle of do_loop that got a Reading: its writes.
Ingest ==
    \E ev \in {"POLL", "ARCHIVE"}, t \in {b + pollfreq_offset : b \in BucketTimes} :
        LET out == do_loop_save(store, SampleReading, ev, t, 0, FALSE, FALSE)
        IN  /\ store' = out.rows
            /\ last' = [op |-> "do_loop", event |-> ev, now |-> t,
                        cur |-> out.cur, arc |-> out.arc]
            /\ UNCHANGED loopvars

\* One request, from its request line to the answer.
Get ==
    \E requestline \in RequestLines :
        LET response == do_GET(store, requestline)
        IN  /\ store' = response.rows
            /\ last' = [op |-> "do_GET", requestline |-> requestline,
                        request |-> parse_requestline(requestline),
                        response |-> response]
            /\ UNCHANGED loopvars

InitServer == store = EmptyStore /\ last = NoCall /\ LoopIdle

NextServer == Ingest \/ Get

SpecServer == InitServer /\ [][NextServer]_vars

(***************************************************************************)
(* Properties of the query server                                          *)
(***************************************************************************)
Handled == last.op = "do_GET"

\* C21: a request on any route, with any arguments, leaves every row of the
\* store as it was; only a cycle of do_loop changes the store.
C21_ServerReadOnly ==
    [][/\ last'.op = "do_GET" => store' = store
       /\ store' # store => last'.op = "do_loop"]_vars

\* A fetch of archive records with a malformed argument has been answered on
\* a store that holds a Current row and Archive rows.
C21_Witness ==
    /\ Handled
    /\ Rows(CURRENT) # {} /\ Rows(ARCHIVE) # {}
    /\ last.requestline.cmd = "/fetch-archive-records"
    /\ last.request.request_type = ERROR
    /\ last.response.rows = store

\* What the request line has after a key, None when the key is not written.
Written(requestline, key) ==
    LET at == {i \in 1..Len(requestline.args) : requestline.args[i].key = key}
    IN  IF at = {} THEN None ELSE S(requestline.args[CHOOSE i \in at : TRUE].text)

\* The integer a written text stands for, None when nothing is written.
WrittenInt(requestline, key) ==
    IF Written(requestline, key) = None THEN None
    ELSE I(IntValue(Written(requestline, key).v))

AllIntegers(requestline) ==
    \A key \in ArgKeys :
        Written(requestline, key) # None => Written(requestline, key).v \in IntTexts

FetchRequested == Handled /\ last.requestline.cmd = "/fetch-archive-records"

\* C22: a fetch of archive records whose arguments are integers, since_ts
\* among them, is dispatched with exactly the values written, the omitted
\* ones unset, and answered with the array of the matching Archive rows; a
\* fetch without since_ts is an error.
C22_FetchDispatched ==
    FetchRequested =>
        IF Written(last.requestline, "since_ts") = None
        THEN last.request.request_type = ERROR /\ last.response.kind = "error"
        ELSE AllIntegers(last.requestline) =>
                /\ last.request.request_type = FETCH_ARCHIVE_RECORDS
                /\ last.request.since_ts = WrittenInt(last.requestline, "since_ts")
                /\ last.request.max_ts = WrittenInt(last.requestline, "max_ts")
                /\ last.request.limit = WrittenInt(last.requestline, "limit")
                /\ last.response.kind = "json"
                /\ last.response.body =
                      fetch_archive_readings_as_json(
                          store, WrittenInt(last.requestline, "since_ts").v,
                          WrittenInt(last.requestline, "max_ts"),
                          WrittenInt(last.requestline, "limit"))

SomeNotInteger(requestline) ==
    \E key \in ArgKeys :
        /\ Written(requestline, key) # None
        /\ Written(requestline, key).v \notin IntTexts

IsWireOf(json, cols) ==
    /\ json.t = "dict" /\ DOMAIN json.v = {"data", "error"}
    /\ json.v.error = None
    /\ DOMAIN json.v.data.v = {"did", "name", "ts", "conditions"}
    /\ \A f \in {"did", "name", "ts"} : json.v.data.v[f] = cols[f]
    /\ Len(json.v.data.v.conditions.v) = 1
    /\ DOMAIN json.v.data.v.conditions.v[1].v = ConditionFields
    /\ \A f \in ConditionFields : json.v.data.v.conditions.v[1].v[f] = cols[f]

EmptyObject == Dict(<<>>)

MaxThreads == 2
Threads == 1..MaxThreads

\* The request lines the threads are given.
ThreadRequests ==
    {[cmd |-> c, sep |-> ",", args |-> <<>>] :
        c \in {"/get-version", "/v1/current_conditions", "/nope"}}

NoRequestLine == [cmd |-> "", sep |-> ",", args |-> <<>>]

\* A thread and the locals of its handler.  pc: "idle" no connection,
\* "parse" before parse_requestline, "fetch" before the branch of do_GET,
\* "respond" before wfile.write, "done" answered, "failed" ended by an
\* exception.  beside: the threads that were in the middle of a request when
\* this one was answered.
IdleThread == [pc |-> "idle", requestline |-> NoRequestLine, body |-> None,
               beside |-> {}]

InFlight(slot) == slot.pc \in {"parse", "fetch", "respond"}

\* HTTPServer without the threading mix-in: a connection is taken up only
\* when no request is in progress.
process_request_serial(table, h) ==
    table[h].pc = "idle" /\ \A g \in DOMAIN table : ~InFlight(table[g])

\* ThreadingMixIn.process_request: a new thread for the connection, whatever
\* the other threads are doing.
process_request(table, h) == table[h].pc = "idle"

Accept(h) ==
    /\ process_request(cyc, h)
    /\ \E requestline \in ThreadRequests :
          cyc' = [cyc EXCEPT ![h] = [IdleThread EXCEPT !.pc = "parse",
                                                       !.requestline = requestline]]
    /\ UNCHANGED <<store, last, now, pc, event, reading, session, archive_ts>>

\* request = Handler.parse_requestline(self.requestline)
Parse(h) ==
    /\ cyc[h].pc = "parse"
    /\ cyc' = [cyc EXCEPT ![h].pc = "fetch"]
    /\ UNCHANGED <<store, last, now, pc, event, reading, session, archive_ts>>

\* The branch of do_GET up to the text to send.  locked: the SELECT finds
\* the file locked by a write for the whole timeout and raises.
Fetch(h) ==
    /\ cyc[h].pc = "fetch"
    /\ \E locked \in BOOLEAN :
          LET response == do_GET(store, cyc[h].requestline)
          IN  /\ store' = response.rows
              /\ cyc' = IF locked /\ response.reads > 0
                        THEN [cyc EXCEPT ![h].pc = "failed"]
                        ELSE [cyc EXCEPT ![h].pc = "respond",
                                         ![h].body = response.body]
    /\ UNCHANGED <<last, now, pc, event, reading, session, archive_ts>>

\* send_response, the headers and self.wfile.write.  gone: the client has
\* closed the connection and the write raises.
Respond(h) ==
    /\ cyc[h].pc = "respond"
    /\ \E gone \in BOOLEAN :
          cyc' = IF gone THEN [cyc EXCEPT ![h].pc = "failed", ![h].body = None]
                 ELSE [cyc EXCEPT ![h].pc = "done", ![h].body = None,
                                  ![h].beside = {g \in Threads \ {h} : InFlight(cyc[g])}]
    /\ UNCHANGED <<store, last, now, pc, event, reading, session, archive_ts>>

\* The thread ends and the connection is closed.
Close(h) ==
    /\ cyc[h].pc \in {"done", "failed"}
    /\ cyc' = [cyc EXCEPT ![h] = IdleThread]
    /\ UNCHANGED <<store, last, now, pc, event, reading, session, archive_ts>>

\* A cycle of do_loop at a Poll tick: the write of the Current row.
IngestPoll ==
    /\ store' = do_loop_save(store, SampleReading, "POLL", now, 0, FALSE, FALSE).rows
    /\ UNCHANGED <<last, loopvars>>

InitThreads ==
    /\ store = EmptyStore /\ last = NoCall
    /\ now = 0 /\ pc = "idle" /\ event = "POLL" /\ reading = None
    /\ session = "none" /\ archive_ts = 0
    /\ cyc = [h \in Threads |-> IdleThread]

NextThreads ==
    \/ \E h \in Threads : Accept(h)
    \/ \E h \in Threads : Parse(h)
    \/ \E h \in Threads : Fetch(h)
    \/ \E h \in Threads : Respond(h)
    \/ \E h \in Threads : Close(h)
    \/ IngestPoll

SpecThreads == InitThreads /\ [][NextThreads]_vars

\* The next step of a thread.
Step(h) == Accept(h) \/ Parse(h) \/ Fetch(h) \/ Respond(h) \/ Close(h)

DbPaths ==
    {[dir |-> "", base |-> "airlinkproxy.sdb"],
     [dir |-> "archive", base |-> "airlinkproxy.sdb"],
     [dir |-> "/home/airlinkproxy/archive", base |-> "airlinkproxy.sdb"],
     [dir |-> "", base |-> ":memory:"]}

InMemory(db_file) == db_file.base = ":memory:"

\* What is at a path: no file, or a database file and the rows of its table.
NoFile == [exists |-> FALSE, rows |-> EmptyStore]
DbFile(rows) == [exists |-> TRUE, rows |-> rows]

\* os.path.exists(''), and so os.makedirs(''), find nothing: the current
\* directory has no name in a path without a directory part.
DirExists(fs, dir) == dir # "" /\ dir \in fs.dirs

\* Database.create: raised is "none" when it returns a Database.
create(fs, db_file) ==
    IF ~InMemory(db_file) /\ fs.files[db_file].exists
    THEN [raised |-> "DatabaseAlreadyExists", fs |-> fs]
    ELSE IF InMemory(db_file)
    THEN [raised |-> "none", fs |-> fs]
    ELSE IF ~DirExists(fs, db_file.dir) /\ db_file.dir = ""
    THEN [raised |-> "FileNotFoundError", fs |-> fs]     \* os.makedirs('')
    ELSE [raised |-> "none",
          fs |-> [files |-> [fs.files EXCEPT ![db_file] = DbFile(EmptyStore)],
                  dirs  |-> fs.dirs \cup {db_file.dir}]]

\* The files and directories before the service has ever run: the working
\* directory and the home of the service, no database.
NoFiles == [files |-> [p \in DbPaths |-> NoFile], dirs |-> {"/home/airlinkproxy/archive"}]

\* Database.create(db_file)
Create ==
    \E db_file \in DbPaths :
        LET out == create(store, db_file)
        IN  /\ store' = out.fs
            /\ last' = [op |-> "Database.create", db_file |-> db_file,
                        before |-> store, raised |-> out.raised]
            /\ UNCHANGED loopvars

\* Database(db_file).save_current_reading(r) on a database that is there.
SaveInto ==
    \E db_file \in DbPaths, r \in DbReadings :
        /\ ~InMemory(db_file) /\ store.files[db_file].exists
        /\ LET res == save_current_reading(store.files[db_file].rows, r, FALSE)
           IN  /\ store' = [store EXCEPT !.files[db_file] = DbFile(res.rows)]
               /\ last' = [op |-> "save_current_reading", db_file |-> db_file,
                           before |-> store, raised |-> IF res.ok THEN "none" ELSE "Error"]
        /\ UNCHANGED loopvars

InitCreate == store = NoFiles /\ last = NoCall /\ LoopIdle

NextCreate == Create \/ SaveInto

SpecCreate == InitCreate /\ [][NextCreate]_vars

\* C26: create on a path where a store exists fails with
\* DatabaseAlreadyExists and leaves every file as it was; on a path where
\* none exists it returns and the store at the path is there and empty.
C26_CreateOnce ==
    (last.op = "Database.create" /\ ~InMemory(last.db_file)) =>
        IF last.before.files[last.db_file].exists
        THEN last.raised = "DatabaseAlreadyExists" /\ store = last.before
        ELSE last.raised = "none" /\ store.files[last.db_file] = DbFile(EmptyStore)

(***************************************************************************)
(* More properties of the scheduler                                        *)
(***************************************************************************)
\* C27 (as claimed): the next archive tick compute_next_event works out is
\* the smallest archive tick after now - pollfreq_secs.
C27_NextArchiveOriginal ==
    Called =>
        /\ IsArchiveTick(last.next_arc_event)
        /\ last.next_arc_event > last.now - pollfreq_secs
        /\ \A x \in (last.now - pollfreq_secs + 1)..(last.next_arc_event - 1) :
              ~IsArchiveTick(x)

\* C27 (amended): the next archive tick compute_next_event works out is the
\* smallest archive tick strictly after now; in the first pollfreq_offset
\* seconds of 1970 it is arcint_secs + pollfreq_offset.
C27_NextArchive ==
    Called =>
        IF last.now >= pollfreq_offset
        THEN last.next_arc_event = NextArchiveTick(last.now)
        ELSE last.next_arc_event = arcint_secs + pollfreq_offset

\* compute_next_event called on an archive tick: the next one is a whole
\* archive interval away.
C27_Witness ==
    /\ Called /\ IsArchiveTick(last.now)
    /\ last.next_arc_event = last.now + arcint_secs
    /\ last.event = "POLL"

\* C28: the scheduler keeps nothing from one call to the next and does not
\* drift.  The sleep at the top of a cycle begins when the cycle before has
\* ended, changes nothing but the clock and the event, ends on a multiple
\* of the poll interval, the first one after the clock at the call, so that
\* ticks that went by during a long cycle are left out; and the event is a
\* function of that tick alone.
C28_NoDrift ==
    [][/\ (pc = "top" /\ pc' = "collect") =>
             /\ IsPollTick(now')
             /\ now' > now /\ now' - now <= pollfreq_secs
             /\ event' = IF IsArchiveTick(now') THEN "ARCHIVE" ELSE "POLL"
             /\ UNCHANGED <<store, reading, session, archive_ts>>
       /\ cyc'.n # cyc.n =>
             /\ pc = "top" /\ pc' = "collect"
             /\ cyc'.n = cyc.n + 1
             /\ cyc'.tick = now']_vars

\* The second cycle wakes up many poll intervals after the first: the first
\* one took most of a minute and the ticks in between were left out.
C28_Witness ==
    /\ pc = "collect" /\ cyc.n = 2
    /\ cyc.tick >= cyc.start + LongFetch
    /\ IsPollTick(cyc.tick)

\* C29: the loop runs on the values of the configuration start was given:
\* it wakes up on the multiples of the configured poll interval, and the
\* event is Archive exactly on the ticks of the configured archive interval,
\* moved by the offset.  (The clock is past the first offset seconds of
\* 1970.)
C29_CadenceAsConfigured ==
    (Called /\ last.now >= pollfreq_offset) =>
        LET tick == last.now + last.secs_to_event
        IN  /\ tick % last.config.pollfreq_secs = 0
            /\ last.event = "ARCHIVE" <=>
                   (tick - pollfreq_offset) % last.config.arcint_secs = 0

(***************************************************************************)
(* The attempts of the GET                                                 *)
(***************************************************************************)
\* C30: one call of collect_data makes at most three attempts.  Every
\* attempt but the first follows a ConnectionError and a pause of a second;
\* the attempts end with the first success, with the first failure of
\* another kind, which fails the call at once, or with the third
\* ConnectionError, which fails it too.
C30_ThreeAttempts ==
    last.op = "collect_data" =>
        LET n == last.get.attempts
        IN  /\ n \in 1..3
            /\ \A i \in 1..(n - 1) : last.tries[i] = "ConnectionError"
            /\ last.get.pauses = n - 1
            /\ last.tries[n] = "ok" => ~last.get.raised
            /\ last.tries[n] = "other" => last.get.raised
            /\ last.tries[n] = "ConnectionError" => (n = 3 /\ last.get.raised)
            /\ last.raised = last.get.raised

\* Two ConnectionErrors, two pauses, and the third attempt brings a Reading.
C30_Witness ==
    /\ last.op = "collect_data"
    /\ last.tries = <<"ConnectionError", "ConnectionError", "ok">>
    /\ last.get.attempts = 3 /\ last.get.pauses = 2
    /\ ~last.raised /\ last.value # None

(***************************************************************************)
(* More properties of the sensor client                                    *)
(***************************************************************************)
\* A payload of type 5 that lacks at least one legacy field.
PartialLegacy(body) ==
    /\ HasStructureType(body)
    /\ PyEq(Condition0(body)["data_structure_type"], I(5))
    /\ \E i \in 1..Len(LegacyNames) : LegacyNames[i] \notin DOMAIN Condition0(body)

\* C31: on a payload of type 5 that lacks one or more of the five legacy
\* fields, whichever they are, the upgrade leaves the version tag as it was,
\* is_sane returns false on what the upgrade leaves, and collect_data
\* returns None without raising.
C31_PartialLegacyRejected ==
    /\ (last.op = "convert_data_structure_type_5_to_6" /\ PartialLegacy(last.body)) =>
          /\ Condition0(last.j)["data_structure_type"]
                = Condition0(last.body)["data_structure_type"]
          /\ ~is_sane(last.j).raised /\ ~is_sane(last.j).sane
    /\ (GetReturned /\ PartialLegacy(last.body)) =>
          (~last.raised /\ last.value = None)

\* The third of the five legacy fields is the one missing: two renames were
\* made before the upgrade gave up, and there is no Reading.
C31_Witness ==
    /\ GetReturned
    /\ last.body = WithoutCondition(Payload(SensorTime, LegacyCondition(SensorTime)),
                                    "pm_10p0_last_3_hours")
    /\ PartialLegacy(last.body)
    /\ ~last.raised /\ last.value = None

(***************************************************************************)
(* More properties of the ingestion loop                                   *)
(***************************************************************************)
\* C32: a store write that fails loses only that write.  On an Archive tick
\* with a Reading to save, a failed Current write leaves the Current rows as
\* they were and the Archive write is still attempted (and, when it
\* succeeds, adds its row); a failed Archive write leaves the Archive rows
\* as they were and a Current write that succeeded in the cycle stays.  In
\* both cases the loop is back at the top and goes on to its next sleep.
C32_FailedWriteLosesOnlyItself ==
    (CycleEnded /\ event = "ARCHIVE" /\ reading # None)
    => /\ cyc.cur = "failed"
          => /\ Rows(CURRENT) = {x \in cyc.before : x.record_type = CURRENT}
             /\ cyc.arc \in {"ok", "failed"}
             /\ cyc.arc = "ok"
                => \E x \in Rows(ARCHIVE) :
                      /\ x.timestamp = archive_ts
                      /\ ReadingEq(x.cols, reading)
                      /\ Rows(ARCHIVE) = ArchiveRowsOf(cyc.before) \cup {x}
       /\ cyc.arc = "failed"
          => /\ Rows(ARCHIVE) = ArchiveRowsOf(cyc.before)
             /\ cyc.cur = "ok"
                => \E x \in Rows(CURRENT) :
                      /\ Rows(CURRENT) = {x}
                      /\ x.timestamp = reading.ts.v
                      /\ ReadingEq(x.cols, reading)
       /\ (cyc.cur = "failed" \/ cyc.arc = "failed")
          => (cyc.n < MaxCycles => ENABLED Sleep)

\* An Archive tick where the Current write found the file locked and the
\* Archive write went through, after a cycle that had stored a Current row.
C32_Witness ==
    /\ CycleEnded /\ event = "ARCHIVE" /\ reading # None
    /\ cyc.cur = "failed" /\ cyc.arc = "ok"
    /\ \E x \in cyc.before : x.record_type = CURRENT
    /\ \E x \in Rows(ARCHIVE) : x \notin cyc.before /\ x.timestamp = archive_ts

\* C33: every Archive row do_loop writes is keyed at a multiple of the
\* archive interval, the one the loop computes from the wall clock of the
\* cycle, int((time.time() + 5) / arcint) * arcint, and not at the
\* timestamp of the reading it holds.
C33_ArchiveKeyedAtBucket ==
    [][\A x \in Rows(ARCHIVE)' \ Rows(ARCHIVE) :
          /\ x.timestamp % arcint_secs = 0
          /\ x.timestamp = IntDiv(now + 5, arcint_secs) * arcint_secs
          /\ ReadingEq(x.cols, reading)]_vars

\* An Archive row has been added whose reading was reported in another
\* interval than the bucket the row is keyed at.
C33_Witness ==
    /\ CycleEnded /\ event = "ARCHIVE" /\ cyc.arc = "ok"
    /\ \E x \in Rows(ARCHIVE) :
          /\ x \notin cyc.before
          /\ x.timestamp = archive_ts
          /\ ReadingEq(x.cols, reading)
          /\ x.timestamp # reading.ts.v
          /\ IntDiv(reading.ts.v, arcint_secs) * arcint_secs # x.timestamp

\* C34 (as claimed): the Archive event of the tick k * arcint_secs +
\* pollfreq_offset computes the bucket k * arcint_secs, whatever time the
\* fetch has taken since the wake-up, so the Archive events of two
\* different ticks never compute the same bucket.
C34_BucketOfTheTick ==
    (CycleEnded /\ event = "ARCHIVE" /\ reading # None)
    => /\ IsArchiveTick(cyc.tick)
       /\ archive_ts = cyc.tick - pollfreq_offset
       /\ \A x \in ArchiveRowsOf(cyc.before) :
              cyc.arc = "ok" => x.timestamp # archive_ts

(***************************************************************************)
(* More properties of the store                                            *)
(***************************************************************************)
\* C35: save_current_reading is all or nothing.  A call that fails, also
\* one whose INSERT fails after its DELETE has been executed, leaves the
\* store as it was: the previous Current row is still there and is what
\* fetch_current_readings returns.
C35_CurrentAllOrNothing ==
    [][(last'.op = "save_current_reading" /\ ~last'.ok)
       => /\ store' = store
          /\ Rows(CURRENT)' = Rows(CURRENT)
          /\ fetch_current_readings(store') = fetch_current_readings(store)]_vars

\* The INSERT of a reading whose name holds a double quote has failed on a
\* file that was not locked, after the DELETE; the Current row stored
\* before is still returned.
C35_Witness ==
    /\ last.op = "save_current_reading" /\ ~last.ok /\ ~last.busy
    /\ last.r = QuotedReading
    /\ \E x \in Rows(CURRENT) :
          /\ x.timestamp = SampleReading.ts.v
          /\ fetch_current_readings(store) = <<x.cols>>

\* C37: fetch_current_readings returns the stored Current row if and only if
\* the timestamp the row is keyed at, the reading's own ts, is greater than
\* 0; a Current row keyed at 0 or below is in the store and is not returned.
C37_CurrentOnlyIfPositive ==
    \A x \in Rows(CURRENT) :
        /\ x.timestamp = x.cols["ts"].v
        /\ fetch_current_readings(store)
              = IF x.timestamp > 0 THEN <<x.cols>> ELSE <<>>
        /\ last.op = "fetch_current_readings"
              => last.returned = IF x.timestamp > 0 THEN <<x.cols>> ELSE <<>>

\* fetch_current_readings has returned nothing while the store holds the
\* Current row of a reading whose ts is 0.
C37_Witness ==
    /\ last.op = "fetch_current_readings" /\ last.returned = <<>>
    /\ \E x \in Rows(CURRENT) : x.timestamp = 0 /\ ReadingEq(x.cols, EpochReading)

\* The payload as is_sane sees it: a type 5 payload after its conversion.
Converted(body) ==
    IF PyEq(Condition0(body)["data_structure_type"], I(5))
    THEN convert_data_structure_type_5_to_6(body)
    ELSE body

\* is_sane accepts the payload collect_data hands to it.
SaneAsChecked(body) ==
    /\ HasStructureType(body)
    /\ ~is_sane(Converted(body)).raised /\ is_sane(Converted(body)).sane

\* last_report_time is a number and is not more than 60 seconds before t.
Fresh(body, t) ==
    LET time_of_reading == Condition0(Converted(body))["last_report_time"]
    IN  ~IsNone(time_of_reading) /\ t - time_of_reading.v <= max_age_secs

NoTransaction == [phase |-> "closed", r |-> None, view |-> EmptyStore]

\* The rows a SELECT on another connection reads: the committed ones, and
\* nothing of the writer's open transaction.
Snapshot(committed, tx) == committed

\* with sqlite3.connect(...) as conn, and the DELETE of save_reading.
TxDelete ==
    /\ cyc.phase = "closed"
    /\ \E r \in CurrentReadings :
          cyc' = [phase |-> "deleted", r |-> r, view |-> DeleteCurrent(store)]
    /\ UNCHANGED <<store, last, now, pc, event, reading, session, archive_ts>>

\* cursor.execute(insert_reading_sql): the row is added to the writer's
\* view.
TxInsert ==
    /\ cyc.phase = "deleted"
    /\ LET insert_reading_sql == build_insert_statement(CURRENT, cyc.r.ts, cyc.r)
           row == RowOf(insert_reading_sql)
       IN  /\ WellFormed(insert_reading_sql) /\ ~KeyTaken(cyc.view, row)
           /\ cyc' = [cyc EXCEPT !.phase = "inserted", !.view = cyc.view \cup {row}]
    /\ UNCHANGED <<store, last, now, pc, event, reading, session, archive_ts>>

\* The INSERT raises: the with block is left and the transaction is rolled
\* back.
TxRollback ==
    /\ cyc.phase = "deleted"
    /\ LET insert_reading_sql == build_insert_statement(CURRENT, cyc.r.ts, cyc.r)
       IN  ~WellFormed(insert_reading_sql)
             \/ KeyTaken(cyc.view, RowOf(insert_reading_sql))
    /\ cyc' = NoTransaction
    /\ UNCHANGED <<store, last, now, pc, event, reading, session, archive_ts>>

\* The with block is left normally: commit.
TxCommit ==
    /\ cyc.phase = "inserted"
    /\ store' = cyc.view
    /\ cyc' = NoTransaction
    /\ UNCHANGED <<last, now, pc, event, reading, session, archive_ts>>

\* do_GET of /v1/current_conditions: fetch_current_readings on the rows its
\* own connection reads.  before: the Current rows committed at that time;
\* writing: the row of the writer's open transaction.
Select ==
    /\ last' = [op |-> "fetch_current_reading_as_json",
                returned |-> fetch_current_readings(Snapshot(store, cyc)),
                before |-> Rows(CURRENT),
                writing |-> IF cyc.phase = "closed" THEN {}
                            ELSE {RowOf(build_insert_statement(
                                            CURRENT, cyc.r.ts, cyc.r))},
                phase |-> cyc.phase]
    /\ UNCHANGED <<store, loopvars>>

InitIsolation ==
    /\ store = EmptyStore /\ last = NoCall
    /\ now = 0 /\ pc = "idle" /\ event = "POLL" /\ reading = None
    /\ session = "none" /\ archive_ts = 0
    /\ cyc = NoTransaction

NextIsolation == TxDelete \/ TxInsert \/ TxRollback \/ TxCommit \/ Select

SpecIsolation == InitIsolation /\ [][NextIsolation]_vars

\* C36 (as claimed): a handler that reads the Current record while do_loop
\* is replacing it gets the previous Current record or the new one: once a
\* Current record has been committed, no read gets zero rows or two.
C36_ReadSeesOldOrNew ==
    (last.op = "fetch_current_reading_as_json" /\ last.before # {})
    => /\ Len(last.returned) = 1
       /\ \E x \in last.before \cup last.writing : last.returned[1] = x.cols

====
